---------------------------- MODULE Spec2Model ----------------------------
(***************************************************************************)
(* Model of scripts/gtfs.py (Vonter/bmtc-gtfs): the GTFSWriter registry,   *)
(* the stages of the run from add_stops to write_gtfs (Spec), the trip     *)
(* time synthesis of add_trips (SpecTrip) and identify_fare_stages         *)
(* (SpecStages).                                                           *)
(*                                                                         *)
(* Units.  Distances are integers in units of 0.5 km (the default          *)
(* inter-stop distance of gtfs.py:470 is one unit).  Stops lie on one      *)
(* meridian, so the great-circle distance of two stops is the absolute     *)
(* difference of their positions.  A datetime is an integer number of      *)
(* ticks since 1900-01-01 00:00 (strptime's date for a '%H:%M' string);    *)
(* a tick stands for datetime's resolution (one microsecond in CPython),   *)
(* taken coarser here, TicksPerSecond to the second.  Python floats are    *)
(* exact rationals [n, d], d > 0; timedelta(seconds=x) rounds x to the     *)
(* nearest tick, ties to even, as CPython does.  An emitted 'HH:MM:SS'     *)
(* string is the second of the day it denotes.                             *)
(***************************************************************************)
EXTENDS Integers, Sequences, FiniteSets, TLC

VARIABLES
    pc,               \* position of the run
    raw,              \* the documents of the ../raw/ directory
    stops,            \* gtfs.stops
    routes,           \* gtfs.routes
    shapes,           \* gtfs.shapes
    trips,            \* gtfs.trips
    stop_times,       \* gtfs.stop_times
    translations,     \* gtfs.translations
    fare_attributes,  \* gtfs.fare_attributes
    fare_rules,       \* gtfs.fare_rules
    feed,             \* the tables of intermediate/bmtc.zip
    routes_with_fares,    \* add_fares: routes_with_fares
    routes_without_fares, \* add_fares: routes_without_fares
    failed_fares,     \* add_fares: failed_fares, as the set of its names
    trip_counter,     \* add_trips: trip_counter
    rd_index,         \* add_trips: place in the loop over route-directions
    trip_index,       \* add_trips: place in the loop over trip_details
    addedTrips,       \* add_trips: addedTrips
    failedTrips,      \* add_trips: failedTrips
    noStops,          \* add_trips: noStops
    noTimetables,     \* add_trips: noTimetables
    noShapes,         \* add_trips: noShapes
    in_trip,          \* the timetable entry being processed
    in_stops,         \* stops[direction.lower()]["data"] of the route-direction
    fs_fares,         \* identify_fare_stages: stop_pair_fares
    fs_route_stops,   \* identify_fare_stages: route_stops
    fs_result,        \* identify_fare_stages: the returned pair
    requests,         \* scrape.py: the coroutines running make_request
    semaphore,        \* scrape.py: the value of BMTCApiClient.semaphore
    stop_files,       \* get_fares: stop_files
    processed_routes, \* get_fares: processed_routes
    batch_start,      \* get_fares: i of the loop over the batches
    last_batch        \* get_fares: the batch that completed last

vars == <<pc, raw, stops, routes, shapes, trips, stop_times, translations,
          fare_attributes, fare_rules, feed, routes_with_fares,
          routes_without_fares, failed_fares, trip_counter,
          rd_index, trip_index, addedTrips, failedTrips, noStops,
          noTimetables, noShapes, in_trip, in_stops, fs_fares,
          fs_route_stops, fs_result, requests, semaphore, stop_files,
          processed_routes, batch_start, last_batch>>

registryVars == <<stops, routes, shapes, trips, stop_times>>
tripInputVars == <<in_trip, in_stops>>
stageVars == <<fs_fares, fs_route_stops, fs_result>>
outputVars == <<translations, fare_attributes, fare_rules, feed>>
fareVars == <<routes_with_fares, routes_without_fares, failed_fares>>
loopVars == <<rd_index, trip_index>>
listVars == <<addedTrips, failedTrips, noStops, noTimetables, noShapes>>
requestVars == <<requests, semaphore>>
getFaresVars == <<stop_files, processed_routes, batch_start, last_batch>>
scraperVars == <<requestVars, getFaresVars>>

----------------------------------------------------------------------------
(* Bounds and program constants *)

TicksPerSecond == 10

MaxStops == 4

MaxTripMinutes == 10

MAX_SPEED_KMH == 75

DefaultDistance == 1

UnitsPerKm == 2 * DefaultDistance

SecondsPerDay == 24 * 3600

----------------------------------------------------------------------------
(* Arithmetic *)

Abs(x) == IF x < 0 THEN -x ELSE x

Rat(n, d) == [n |-> n, d |-> d]

\* a >= b for rationals with positive denominators
RatGeq(a, b) == a.n * b.d >= b.n * a.d

RatGt(a, b) == a.n * b.d > b.n * a.d

\* num / den rounded to the nearest integer, ties to even (den > 0)
RoundHalfEven(num, den) ==
    LET q == num \div den
        r == num % den
    IN  IF 2 * r < den THEN q
        ELSE IF 2 * r > den THEN q + 1
        ELSE IF q % 2 = 0 THEN q ELSE q + 1

\* mutant of timedelta: the fraction of a tick is cut off, not rounded
timedelta_truncated(x) == (x.n * TicksPerSecond) \div x.d

\* datetime.timedelta(seconds=x) for a float x: x seconds in ticks
timedelta(x) == RoundHalfEven(x.n * TicksPerSecond, x.d)

\* datetime.strptime(s, '%H:%M') for a well-formed s
strptime(f) == f.min * 60 * TicksPerSecond

\* (a - b).total_seconds() of two datetimes parsed by strptime: whole seconds
total_seconds(ticks) == ticks \div TicksPerSecond

\* datetime.strftime('%H:%M:%S'): the fraction of a second is dropped and
\* the date is not printed
strftime(t) == (t \div TicksPerSecond) % SecondsPerDay

----------------------------------------------------------------------------
(* Input documents *)

StopIds == {"S1", "S2", "S3", "S4"}

\* A stop's centerlat / centerlong pair: two numbers ("num", pos the
\* position on the meridian), a missing key ("absent"), a non-numeric
\* string ("bad") or a JSON null ("null").
Positions == {0, 2, 4, 5, 7}

Coords == [kind : {"num"}, pos : Positions]
            \cup [kind : {"absent", "bad", "null"}, pos : {0}]

\* A starttime / endtime field: a 'HH:MM' string (min the minute of the
\* day), a missing key, or a string strptime rejects.
Minutes(h, m) == 60 * h + m

HHMM(h, m) == [kind |-> "hhmm", min |-> Minutes(h, m)]

AbsentTime == [kind |-> "absent", min |-> 0]

BadTime == [kind |-> "bad", min |-> 0]

----------------------------------------------------------------------------
(* haversine_distance and the distances of add_trips *)

Sum(s) ==
    LET f[k \in 0..Len(s)] == IF k = 0 THEN 0 ELSE f[k - 1] + s[k]
    IN  f[Len(s)]

\* What the call haversine_distance(cur[...], cur[...], nxt[...], nxt[...])
\* raises: the four subscripts are evaluated first (KeyError), then
\* float() is applied to the first stop's pair and to the second's.
HaversineRaises(cur, nxt) ==
    IF cur.kind = "absent" \/ nxt.kind = "absent" THEN "KeyError"
    ELSE IF cur.kind = "bad" THEN "ValueError"
    ELSE IF cur.kind = "null" THEN "TypeError"
    ELSE IF nxt.kind = "bad" THEN "ValueError"
    ELSE IF nxt.kind = "null" THEN "TypeError"
    ELSE "none"

haversine_distance(cur, nxt) == Abs(nxt.pos - cur.pos)

\* The except (KeyError, ValueError) of the distance loop
SegmentDistance(cur, nxt) ==
    IF HaversineRaises(cur, nxt) \in {"KeyError", "ValueError"}
    THEN DefaultDistance
    ELSE haversine_distance(cur, nxt)

Distances(data) ==
    [i \in 1..(Len(data) - 1) |-> SegmentDistance(data[i].coord, data[i + 1].coord)]

\* A TypeError leaves the distance loop: it is not caught there
DistancesRaise(data) ==
    \E i \in 1..(Len(data) - 1) :
        HaversineRaises(data[i].coord, data[i + 1].coord) = "TypeError"

----------------------------------------------------------------------------
(* The second pass of add_trips: segment times *)

min_time_seconds(distance) == Rat(distance * 3600, MAX_SPEED_KMH * UnitsPerKm)

\* mutant of prop_time: the duration is split equally whatever the distances
prop_time_equal_split(duration, distance, total_distance, nsegments) ==
    Rat(duration, nsegments)

prop_time(duration, distance, total_distance, nsegments) ==
    IF total_distance > 0
    THEN Rat(duration * distance, total_distance)
    ELSE Rat(duration, nsegments)

\* mutant of segment_time: the minimum-speed floor is left out
segment_time_no_floor(prop, min) == prop

segment_time(prop, min) == IF RatGeq(prop, min) THEN prop ELSE min

\* timedelta(seconds=segment_time) of one segment
SegmentTicks(duration, distance, total_distance, nsegments) ==
    timedelta(segment_time(prop_time(duration, distance, total_distance, nsegments),
                           min_time_seconds(distance)))

\* stop_times[k]['time'] before the rescale, k = 1..Len(dists) + 1:
\* current_time accumulated over the segments
RECURSIVE Accumulate(_, _, _, _)
Accumulate(times, duration, dists, total_distance) ==
    IF Len(times) = Len(dists) + 1 THEN times
    ELSE Accumulate(
            Append(times,
                   times[Len(times)]
                     + SegmentTicks(duration, dists[Len(times)], total_distance,
                                    Len(dists))),
            duration, dists, total_distance)

ProvisionalTimes(start_time, duration, dists) ==
    Accumulate(<<start_time>>, duration, dists, Sum(dists))

\* mutant of NeedsRescale: the times are never scaled back
NeedsRescale_never(current_time, end_time) == FALSE

\* if current_time > end_time
NeedsRescale(current_time, end_time) == current_time > end_time

\* mutant of scaled_time: the scale factor is not applied
scaled_time_unscaled(start_time, time, duration, actual) == time

\* start_time + timedelta(seconds=original_delta * (duration / actual_duration))
scaled_time(start_time, time, duration, actual) ==
    start_time + timedelta(Rat((time - start_time) * duration, actual))

\* The rescale loop over stop_times[1:], given the provisional times
Rescaled(prov, start_time, duration) ==
    [k \in 1..Len(prov) |->
        IF k = 1 THEN prov[1]
        ELSE scaled_time(start_time, prov[k], duration,
                         prov[Len(prov)] - start_time)]

\* stop_times[k]['time'] when the stop times are added to the feed, given
\* the provisional times
FinalOf(prov, start_time, end_time) ==
    IF NeedsRescale(prov[Len(prov)], end_time)
    THEN Rescaled(prov, start_time, total_seconds(end_time - start_time))
    ELSE prov

FinalTimes(start_time, end_time, dists) ==
    FinalOf(ProvisionalTimes(start_time, total_seconds(end_time - start_time), dists),
            start_time, end_time)

\* scale_factor = duration / actual_duration with actual_duration = 0,
\* given the provisional times
RaisesOf(prov, start_time, end_time) ==
    NeedsRescale(prov[Len(prov)], end_time) /\ prov[Len(prov)] = start_time

RescaleRaises(start_time, end_time, dists) ==
    RaisesOf(ProvisionalTimes(start_time, total_seconds(end_time - start_time), dists),
             start_time, end_time)

----------------------------------------------------------------------------
(* One timetable entry of add_trips (the body of "for trip in trip_details") *)

\* GTFSWriter.add_trip's record; trip_id is str(trip_counter), written
\* here as the number it spells
add_trip(route_id, trip_id, headsign, direction_id, shape_id) ==
    [route_id |-> route_id, service_id |-> "1", trip_id |-> trip_id,
     trip_headsign |-> headsign, direction_id |-> direction_id,
     shape_id |-> shape_id]

\* GTFSWriter.add_stop_time's record
add_stop_time(trip_id, stop_id, stop_sequence, arrival_time, departure_time) ==
    [trip_id |-> trip_id, arrival_time |-> arrival_time,
     departure_time |-> departure_time, stop_id |-> stop_id,
     stop_sequence |-> stop_sequence]

\* mutant of StopSequence: the sequence is numbered from 0
StopSequence_from_zero(k) == k - 1

\* 'stop_sequence': 1 for the first stop, i + 2 for the stop after
\* segment i (0-based); k is the 1-based place in stops_data
StopSequence(k) == k

\* "starttime" not in trip or "endtime" not in trip
MissingTimeData(trip) ==
    trip.starttime.kind = "absent" \/ trip.endtime.kind = "absent"

\* strptime raises ValueError
TimeParseRaises(trip) ==
    trip.starttime.kind = "bad" \/ trip.endtime.kind = "bad"

\* gtfs.add_trip called before the times are parsed
TripIsAdded_before_parse(trip) == ~MissingTimeData(trip)

\* gtfs.add_trip is reached
TripIsAdded(trip) == ~MissingTimeData(trip) /\ ~TimeParseRaises(trip)

\* How the entry's iteration ends
TripOutcome(trip, stops_data) ==
    IF MissingTimeData(trip) THEN "missing_time"
    ELSE IF TimeParseRaises(trip) THEN "ValueError"
    ELSE IF stops_data = <<>> THEN "no_stops_data"
    ELSE IF DistancesRaise(stops_data) THEN "TypeError"
    ELSE IF RescaleRaises(strptime(trip.starttime), strptime(trip.endtime),
                          Distances(stops_data)) THEN "ZeroDivisionError"
    ELSE "emitted"

\* formatted_time of one stop
FormattedTime(time) == strftime(time)

\* The rows the entry appends to gtfs.stop_times
TripStopTimes(trip_id, trip, stops_data) ==
    IF TripOutcome(trip, stops_data) # "emitted" THEN <<>>
    ELSE LET times == FinalTimes(strptime(trip.starttime), strptime(trip.endtime),
                                 Distances(stops_data))
         IN  [k \in 1..Len(stops_data) |->
                add_stop_time(trip_id, stops_data[k].stationid, StopSequence(k),
                              FormattedTime(times[k]), FormattedTime(times[k]))]

\* One iteration of the loop over trip_details
TripEntry(route_id, direction, shape_id, headsign, trip, stops_data) ==
    /\ trip_counter' = trip_counter + 1
    /\ trips' = IF TripIsAdded(trip)
                THEN Append(trips, add_trip(route_id, trip_counter + 1, headsign,
                                IF direction = "DOWN" THEN "1" ELSE "0", shape_id))
                ELSE trips
    /\ stop_times' = stop_times \o TripStopTimes(trip_counter + 1, trip, stops_data)

----------------------------------------------------------------------------
(* SpecTrip: one timetable entry, over every input of the bounded sets *)

\* The stationid of the k-th stop of the stops document
StationIds == <<"S3", "S1", "S4", "S2", "S5", "S6">>

StopsData(coords) ==
    [k \in 1..Len(coords) |-> [stationid |-> StationIds[k], coord |-> coords[k]]]

SeqsUpTo(S, n) == UNION {[1..m -> S] : m \in 0..n}

StopsDocuments == {StopsData(c) : c \in SeqsUpTo(Coords, MaxStops)}

Entry(s, e) == [starttime |-> s, endtime |-> e]

StartTimes == {HHMM(0, 1), HHMM(8, 0), HHMM(8, 10)}

EndTimes == {HHMM(0, 0), HHMM(8, 3), HHMM(8, 10)}

\* The entries whose nominal duration is at most MaxTripMinutes either way
\* (the products of the rescale stay within 32-bit integers): end after
\* start, end = start, end before start; and entries with a missing or
\* malformed field
TripEntries ==
    {t \in [starttime : StartTimes, endtime : EndTimes] :
        Abs(t.endtime.min - t.starttime.min) <= MaxTripMinutes}
    \cup {Entry(AbsentTime, HHMM(8, 10)), Entry(HHMM(8, 0), AbsentTime),
          Entry(BadTime, HHMM(8, 10)), Entry(HHMM(8, 0), BadTime),
          Entry(AbsentTime, BadTime)}

NoTrip == [starttime |-> AbsentTime, endtime |-> AbsentTime]

\* GTFSWriter.__init__
InitRegistry ==
    /\ stops = <<>>
    /\ routes = <<>>
    /\ shapes = <<>>
    /\ trips = <<>>
    /\ stop_times = <<>>
    /\ translations = <<>>
    /\ fare_attributes = <<>>
    /\ fare_rules = <<>>
    /\ feed = <<>>

\* add_trips is not running
InitLoop ==
    /\ rd_index = 0
    /\ trip_index = 0
    /\ addedTrips = <<>>
    /\ failedTrips = <<>>
    /\ noStops = <<>>
    /\ noTimetables = <<>>
    /\ noShapes = <<>>

\* add_fares is not running
InitFares ==
    /\ routes_with_fares = 0
    /\ routes_without_fares = 0
    /\ failed_fares = {}

\* No batch of get_fares has completed
NoBatch == [processed |-> {}, batch |-> <<>>, tasks |-> <<>>, results |-> <<>>]

\* scrape.py is not running
InitScraper ==
    /\ requests = <<>>
    /\ semaphore = 0
    /\ stop_files = <<>>
    /\ processed_routes = {}
    /\ batch_start = 0
    /\ last_batch = NoBatch

\* No document in ../raw/
NoRaw == [routes |-> [kind |-> "missing"], stops |-> <<>>, routelines |-> <<>>,
          timetables |-> <<>>, translations |-> <<>>,
          fares |-> [stop_codes |-> [kind |-> "missing"], files |-> <<>>]]

InitTrip ==
    /\ pc = "trip"
    /\ raw = NoRaw
    /\ InitRegistry
    /\ InitLoop
    /\ InitFares
    /\ InitScraper
    /\ fs_fares = <<>>
    /\ fs_route_stops = <<>>
    /\ fs_result = [stages |-> <<>>, stage_boundaries |-> <<>>]
    /\ trip_counter = 0
    /\ in_trip \in TripEntries
    /\ in_stops \in StopsDocuments

SynthesizeTrip ==
    /\ pc = "trip"
    /\ pc' = "trip_done"
    /\ TripEntry("R1", "UP", "R1 UP", "", in_trip, in_stops)
    /\ UNCHANGED <<raw, scraperVars, outputVars, stops, routes, shapes, loopVars, listVars,
                   tripInputVars, stageVars, fareVars>>

NextTrip == SynthesizeTrip

SpecTrip == InitTrip /\ [][NextTrip]_vars

----------------------------------------------------------------------------
(* Properties of the trip time synthesis, checked under SpecTrip *)

\* The entry has been processed and its stop times were added to the feed
TripEmitted == pc = "trip_done" /\ stop_times # <<>>

InStart == strptime(in_trip.starttime)

InEnd == strptime(in_trip.endtime)

InDuration == total_seconds(InEnd - InStart)

InDists == Distances(in_stops)

InProvisional == ProvisionalTimes(InStart, InDuration, InDists)

InProp(i) == prop_time(InDuration, InDists[i], Sum(InDists), Len(InDists))

InMin(i) == min_time_seconds(InDists[i])

\* The trip took the rescale branch
InRescaled == NeedsRescale(InProvisional[Len(InProvisional)], InEnd)

\* Some segment's minimum-speed floor exceeds its proportional share
FloorEngaged == \E i \in 1..Len(InDists) : RatGt(InMin(i), InProp(i))

Arrival(k) == stop_times[k].arrival_time

\* C2 as stated: for every emitted trip and every segment, the emitted
\* elapsed time is at least distance / MAX_SPEED, rescaled or not (stated
\* here for the trips whose end time is after their start time).
C2_EmittedSpeedWithinMax ==
    (TripEmitted /\ InEnd > InStart) =>
        \A i \in 1..Len(InDists) :
            (Arrival(i + 1) - Arrival(i)) * InMin(i).d >= InMin(i).n

FloorKept(prov, dists, rescaled) ==
    \A i \in 1..Len(dists) :
        /\ prov[i + 1] - prov[i] >= timedelta(min_time_seconds(dists[i]))
        /\ ~rescaled =>
              (Arrival(i + 1) - Arrival(i) + 1) * min_time_seconds(dists[i]).d
                  > min_time_seconds(dists[i]).n

\* C2 amended: for every emitted trip and every segment, the time allocated
\* before the rescale is at least distance / MAX_SPEED (rounded to the
\* timestamp resolution), and when the rescale branch is not taken the
\* emitted elapsed time is more than distance / MAX_SPEED minus one second.
C2_FloorHoldsBeforeRescale ==
    TripEmitted => FloorKept(InProvisional, InDists, InRescaled)

\* C2 witness: an emitted trip of several segments, end after start, on
\* which the floor engaged and which was rescaled
C2_Witness ==
    /\ TripEmitted
    /\ InEnd > InStart
    /\ Len(InDists) >= 2
    /\ FloorEngaged
    /\ InRescaled

\* C3: for any trip with emitted stop times, arrival_time is non-decreasing
\* across increasing stop_sequence.
C3_ArrivalNonDecreasing ==
    TripEmitted =>
        \A i, j \in 1..Len(stop_times) :
            stop_times[i].stop_sequence < stop_times[j].stop_sequence
                => Arrival(i) <= Arrival(j)

\* C4: for any emitted trip, every stop's departure_time equals its
\* arrival_time, no arrival_time is earlier than the trip's start time and
\* the last stop's arrival_time is not later than the trip's end time.
C4_TimesWithinWindow ==
    TripEmitted =>
        /\ \A k \in 1..Len(stop_times) :
              /\ stop_times[k].departure_time = Arrival(k)
              /\ Arrival(k) >= strftime(InStart)
        /\ Arrival(Len(stop_times)) <= strftime(InEnd)

\* C5: the rows emitted for a stop list of N stops carry stop_sequence
\* 1..N, one row per value, in source stop order.
C5_StopSequenceExact ==
    TripEmitted =>
        /\ Len(stop_times) = Len(in_stops)
        /\ \A k \in 1..Len(stop_times) :
              /\ stop_times[k].stop_sequence = k
              /\ stop_times[k].stop_id = in_stops[k].stationid
              /\ stop_times[k].trip_id = trip_counter

\* C5 witness: a trip of MaxStops stops was emitted
C5_Witness == TripEmitted /\ Len(in_stops) = MaxStops

\* C6: the first stop's emitted time is start_time in every case, and
\* when some segment's floor exceeds its proportional share the last
\* stop's emitted time is end_time.
C6_RescaleEndsAtEndTime ==
    TripEmitted =>
        /\ Arrival(1) = strftime(InStart)
        /\ FloorEngaged => /\ InRescaled
                           /\ Arrival(Len(stop_times)) = strftime(InEnd)

\* C6 witness: an emitted trip with end after start on which the floor
\* engaged on a segment
C6_Witness ==
    /\ TripEmitted
    /\ InEnd > InStart
    /\ Len(InDists) >= 2
    /\ FloorEngaged

\* The trip has at least two stops and none of its segments needs the floor
NoFloor ==
    /\ Len(InDists) >= 1
    /\ \A i \in 1..Len(InDists) : RatGeq(InProp(i), InMin(i))

AllocatedSum(prov) == prov[Len(prov)] - prov[1]

\* C7 as stated: if no segment of a trip (of at least two stops) needs the
\* floor the allocated segment times sum to exactly end_time - start_time,
\* the last stop's time is end_time and the rescale branch is not taken.
C7_NoFloorExact ==
    (TripEmitted /\ NoFloor) =>
        /\ AllocatedSum(InProvisional) = InEnd - InStart
        /\ Arrival(Len(stop_times)) = strftime(InEnd)
        /\ ~InRescaled

NoFloorRounded(prov, nsegments) ==
    /\ 2 * Abs(AllocatedSum(prov) - (InEnd - InStart)) <= nsegments
    /\ NeedsRescale(prov[Len(prov)], InEnd)
          => /\ AllocatedSum(prov) > InEnd - InStart
             /\ Arrival(Len(stop_times)) = strftime(InEnd)
    /\ Arrival(Len(stop_times)) \in {strftime(InEnd) - 1, strftime(InEnd)}

\* C7 amended: if no segment of a trip (of at least two stops) needs the
\* floor the allocated segment times
\* sum to end_time - start_time up to the rounding of each segment time to
\* the timestamp resolution (half a tick per segment); the rescale branch
\* is taken only when the rounded sum exceeds end_time - start_time, and
\* then the last stop's time is end_time; otherwise the last stop's
\* emitted time is end_time or the second before it.
C7_NoFloorUpToRounding ==
    (TripEmitted /\ NoFloor) => NoFloorRounded(InProvisional, Len(InDists))

\* C7 witness: a trip without floor whose rounded segment times fall short
\* of the duration
C7_Witness ==
    /\ TripEmitted
    /\ NoFloor
    /\ AllocatedSum(InProvisional) < InEnd - InStart

\* 'HH:MM:SS' as the second of the day
Clock(h, m, sec) == 3600 * h + 60 * m + sec

\* The worked example: stops A, B, C with AB = 2 km and BC = 0.5 km (4 and
\* 1 distance units), start 08:00, end 08:10
ExampleStops ==
    StopsData(<<[kind |-> "num", pos |-> 0], [kind |-> "num", pos |-> 4],
                [kind |-> "num", pos |-> 5]>>)

ExampleProcessed ==
    /\ pc = "trip_done"
    /\ in_trip = Entry(HHMM(8, 0), HHMM(8, 10))
    /\ in_stops = ExampleStops

\* a float of seconds is the whole number v
IsSeconds(x, v) == x.n = v * x.d

\* a float of seconds rounds to the whole number v
RoundsToSeconds(x, v) == RoundHalfEven(x.n, x.d) = v

\* C8 as stated: in the worked example the minimum times are 96 s and
\* 24 s, the proportional times 533 s and 67 s, no rescale is triggered, B
\* is emitted at 08:08:53 and C at 08:10:00.
C8_ExampleAsStated ==
    ExampleProcessed =>
        /\ IsSeconds(InMin(1), 96) /\ IsSeconds(InMin(2), 24)
        /\ RoundsToSeconds(InProp(1), 533) /\ RoundsToSeconds(InProp(2), 67)
        /\ ~InRescaled
        /\ Len(stop_times) = 3
        /\ Arrival(2) = Clock(8, 8, 53)
        /\ Arrival(3) = Clock(8, 10, 0)

\* C8 amended: in the worked example the minimum times are 96 s and 24 s,
\* the proportional times 480 s and 120 s, no rescale is triggered, A is
\* emitted at 08:00:00, B at 08:08:00 and C at 08:10:00.
C8_ExampleAsComputed ==
    ExampleProcessed =>
        /\ IsSeconds(InMin(1), 96) /\ IsSeconds(InMin(2), 24)
        /\ IsSeconds(InProp(1), 480) /\ IsSeconds(InProp(2), 120)
        /\ ~InRescaled
        /\ Len(stop_times) = 3
        /\ Arrival(1) = Clock(8, 0, 0)
        /\ Arrival(2) = Clock(8, 8, 0)
        /\ Arrival(3) = Clock(8, 10, 0)

\* C8 witness: the worked example has been processed and its rows emitted
C8_Witness == ExampleProcessed /\ TripEmitted

----------------------------------------------------------------------------
(* identify_fare_stages *)

\* A fare is a float of rupees, held in thousandths of a rupee
Rupees(r) == r * 1000

\* d[k] = v on a dict
Put(d, k, v) == [x \in DOMAIN d \cup {k} |-> IF x = k THEN v ELSE d[x]]

\* d.get(k, default)
Get(d, k, default) == IF k \in DOMAIN d THEN d[k] ELSE default

EmptyDict == <<>>

\* mutant of FareIncreased: the comparison is inverted
FareIncreased_inverted(current_fare, max_prev) == current_fare < max_prev

\* mutant of FareIncreased: a fare equal to the running maximum counts as
\* an increase
FareIncreased_or_equal(current_fare, max_prev) == current_fare >= max_prev

\* if current_fare > max_fares.get(prev_stop, 0.0)
FareIncreased(current_fare, max_prev) == current_fare > max_prev

\* mutant of SameStage: a stop without a fare increase falls back to stage 0
SameStage_reset(stages, prev_stop) == 0

\* stages[prev_stop], the stage of a stop that starts no new stage
SameStage(stages, prev_stop) == stages[prev_stop]

\* One iteration of "for i in range(1, len(route_stops))"; i is the
\* 1-based place of current_stop, st the loop's variables
StageStep(stop_pair_fares, route_stops, i, st) ==
    LET current_stop == route_stops[i]
        prev_stop == route_stops[i - 1]
        fare_key == <<prev_stop, current_stop>>
        max_prev == Get(st.max_fares, prev_stop, 0)
    IN  IF fare_key \in DOMAIN stop_pair_fares
        THEN IF FareIncreased(stop_pair_fares[fare_key], max_prev)
             THEN [stages |-> Put(st.stages, current_stop, st.current_stage + 1),
                   stage_boundaries |->
                       Put(st.stage_boundaries, st.current_stage + 1, current_stop),
                   current_stage |-> st.current_stage + 1,
                   max_fares |-> Put(st.max_fares, current_stop,
                                     stop_pair_fares[fare_key])]
             ELSE [stages |-> Put(st.stages, current_stop, SameStage(st.stages, prev_stop)),
                   stage_boundaries |-> st.stage_boundaries,
                   current_stage |-> st.current_stage,
                   max_fares |-> Put(st.max_fares, current_stop, max_prev)]
        ELSE [stages |-> Put(st.stages, current_stop, SameStage(st.stages, prev_stop)),
              stage_boundaries |-> st.stage_boundaries,
              current_stage |-> st.current_stage,
              max_fares |-> Put(st.max_fares, current_stop, max_prev)]

RECURSIVE StageLoop(_, _, _, _)
StageLoop(stop_pair_fares, route_stops, i, st) ==
    IF i > Len(route_stops) THEN st
    ELSE StageLoop(stop_pair_fares, route_stops, i + 1,
                   StageStep(stop_pair_fares, route_stops, i, st))

\* if not route_stops or len(route_stops) < 2
TooFewStops(route_stops) == Len(route_stops) < 2

identify_fare_stages(stop_pair_fares, route_stops) ==
    IF TooFewStops(route_stops)
    THEN [stages |-> EmptyDict, stage_boundaries |-> EmptyDict]
    ELSE LET st == StageLoop(stop_pair_fares, route_stops, 2,
                     [stages |-> Put(EmptyDict, route_stops[1], 0),
                      stage_boundaries |-> Put(EmptyDict, 0, route_stops[1]),
                      current_stage |-> 0,
                      max_fares |-> Put(EmptyDict, route_stops[1], 0)])
         IN  [stages |-> st.stages, stage_boundaries |-> st.stage_boundaries]

----------------------------------------------------------------------------
(* SpecStages: identify_fare_stages over every input of the bounded sets *)

MaxRouteStops == 4

FareValues == {Rupees(0), Rupees(10), Rupees(15)}

\* Lists of distinct stops
RouteStopLists ==
    {l \in SeqsUpTo(StopIds, MaxRouteStops) :
        \A i, j \in 1..Len(l) : i # j => l[i] # l[j]}

\* The stop pairs a fare may have been observed for
FarePairs ==
    {<<"S1", "S2">>, <<"S1", "S3">>, <<"S1", "S4">>,
     <<"S2", "S3">>, <<"S2", "S4">>, <<"S3", "S4">>}

FareMaps == UNION {[D -> FareValues] : D \in SUBSET FarePairs}

NotRun == [stages |-> EmptyDict, stage_boundaries |-> EmptyDict]

InitStagesSpec ==
    /\ pc = "stages"
    /\ raw = NoRaw
    /\ InitRegistry
    /\ InitLoop
    /\ InitFares
    /\ InitScraper
    /\ trip_counter = 0
    /\ in_trip = NoTrip
    /\ in_stops = <<>>
    /\ fs_fares \in FareMaps
    /\ fs_route_stops \in RouteStopLists
    /\ fs_result = NotRun

IdentifyFareStages ==
    /\ pc = "stages"
    /\ pc' = "stages_done"
    /\ fs_result' = identify_fare_stages(fs_fares, fs_route_stops)
    /\ UNCHANGED <<raw, scraperVars, outputVars, registryVars, trip_counter, loopVars,
                   listVars, tripInputVars, fareVars, fs_fares,
                   fs_route_stops>>

NextStages == IdentifyFareStages

SpecStages == InitStagesSpec /\ [][NextStages]_vars

----------------------------------------------------------------------------
(* Properties of identify_fare_stages, checked under SpecStages *)

StagesDone == pc = "stages_done"

ExampleFares ==
    [p \in {<<"S1", "S2">>, <<"S1", "S3">>, <<"S1", "S4">>} |->
        IF p = <<"S1", "S4">> THEN Rupees(15) ELSE Rupees(10)]

ExampleRouteStops == <<"S1", "S2", "S3", "S4">>

ExampleStagesRun ==
    /\ StagesDone
    /\ fs_fares = ExampleFares
    /\ fs_route_stops = ExampleRouteStops

\* C9 as stated: on stops [S1,S2,S3,S4] with fares (S1,S2) 10.0, (S1,S3)
\* 10.0, (S1,S4) 15.0 the stages are S1=0, S2=0, S3=0, S4=1.
C9_ExampleAsStated ==
    ExampleStagesRun =>
        fs_result.stages =
            [x \in {"S1", "S2", "S3", "S4"} |-> IF x = "S4" THEN 1 ELSE 0]

\* C9 amended: on stops [S1,S2,S3,S4] with fares (S1,S2) 10.0, (S1,S3)
\* 10.0, (S1,S4) 15.0 the stages are S1=0, S2=1, S3=1, S4=1 (the fare from
\* S1 to S2 exceeds the running maximum 0 at S1; (S2,S3) and (S3,S4) are
\* unobserved and inherit), and the stage boundaries are 0 at S1, 1 at S2.
C9_ExampleAsComputed ==
    ExampleStagesRun =>
        /\ fs_result.stages =
              [x \in {"S1", "S2", "S3", "S4"} |-> IF x = "S1" THEN 0 ELSE 1]
        /\ fs_result.stage_boundaries =
              [n \in {0, 1} |-> IF n = 0 THEN "S1" ELSE "S2"]

\* C9 witness: the example has been run
C9_Witness == ExampleStagesRun /\ DOMAIN fs_result.stages # {}

\* The fare from the predecessor of the stop at place i to it is observed
PairObserved(i) ==
    <<fs_route_stops[i - 1], fs_route_stops[i]>> \in DOMAIN fs_fares

\* The fare from the predecessor of the stop at place i to it
PairFare(i) == fs_fares[<<fs_route_stops[i - 1], fs_route_stops[i]>>]

\* The running maximum fare at the stop at place i, as the specification
\* of the stages defines it
RECURSIVE RunningMax(_)
RunningMax(i) ==
    IF i = 1 THEN 0
    ELSE IF PairObserved(i) /\ PairFare(i) > RunningMax(i - 1) THEN PairFare(i)
    ELSE RunningMax(i - 1)

\* max_fares when the loop of identify_fare_stages ends
LoopMaxFares ==
    StageLoop(fs_fares, fs_route_stops, 2,
              [stages |-> Put(EmptyDict, fs_route_stops[1], 0),
               stage_boundaries |-> Put(EmptyDict, 0, fs_route_stops[1]),
               current_stage |-> 0,
               max_fares |-> Put(EmptyDict, fs_route_stops[1], 0)]).max_fares

\* C22: for each stop i >= 1 with predecessor p, stop i gets stage(p) + 1
\* exactly when fare(p, i) is observed and greater than the running max
\* at p, and stage(p) otherwise; the running max at i is the larger of
\* the running max at p and fare(p, i) when observed, and that of p when
\* not; stage_boundaries maps each stage number used to the first stop in
\* order that carries it.
C22_StageRule ==
    (StagesDone /\ Len(fs_route_stops) >= 2) =>
        LET stages == fs_result.stages
            boundaries == fs_result.stage_boundaries
            n == Len(fs_route_stops)
        IN  /\ DOMAIN stages = {fs_route_stops[i] : i \in 1..n}
            /\ stages[fs_route_stops[1]] = 0
            /\ \A i \in 2..n :
                  /\ stages[fs_route_stops[i]] =
                        IF PairObserved(i) /\ PairFare(i) > RunningMax(i - 1)
                        THEN stages[fs_route_stops[i - 1]] + 1
                        ELSE stages[fs_route_stops[i - 1]]
                  /\ LoopMaxFares[fs_route_stops[i]] = RunningMax(i)
            /\ DOMAIN boundaries = {stages[x] : x \in DOMAIN stages}
            /\ \A k \in DOMAIN boundaries :
                  \E i \in 1..n :
                      /\ boundaries[k] = fs_route_stops[i]
                      /\ stages[fs_route_stops[i]] = k
                      /\ \A j \in 1..(i - 1) : stages[fs_route_stops[j]] # k

\* C22 witness: a run with a fare above the running maximum, an observed
\* fare not above it and an unobserved pair
C22_Witness ==
    /\ StagesDone
    /\ Len(fs_route_stops) = MaxRouteStops
    /\ \E i \in 2..MaxRouteStops :
          PairObserved(i) /\ PairFare(i) > RunningMax(i - 1)
    /\ \E i \in 2..MaxRouteStops :
          /\ PairObserved(i)
          /\ PairFare(i) = RunningMax(i - 1)
          /\ PairFare(i) > 0
          /\ fs_result.stages[fs_route_stops[i]]
                = fs_result.stages[fs_route_stops[i - 1]]
    /\ \E i \in 2..MaxRouteStops : ~PairObserved(i)

StagesMonotone(stages, route_stops) ==
    /\ \A i \in 1..Len(route_stops) : route_stops[i] \in DOMAIN stages
    /\ stages[route_stops[1]] = 0
    /\ \A i \in 1..(Len(route_stops) - 1) :
          stages[route_stops[i]] <= stages[route_stops[i + 1]]

\* C10 as stated: for any non-empty list of distinct stops and any fare
\* map, the stage numbers are non-decreasing along the stop order and the
\* first stop is assigned stage 0.
C10_StagesMonotoneNonEmpty ==
    (StagesDone /\ Len(fs_route_stops) >= 1)
        => StagesMonotone(fs_result.stages, fs_route_stops)

\* C10 amended: for any list of at least two distinct stops and any fare
\* map, every stop gets a stage number, the numbers are non-decreasing
\* along the stop order and the first stop is assigned stage 0; for a
\* list of fewer than two stops no stop is assigned a stage.
C10_StagesMonotoneTwoStops ==
    StagesDone =>
        IF Len(fs_route_stops) >= 2
        THEN StagesMonotone(fs_result.stages, fs_route_stops)
        ELSE DOMAIN fs_result.stages = {}

\* C10 witness: a run on MaxRouteStops stops that reached stage 2 and in
\* which a stop shares its predecessor's stage
C10_Witness ==
    /\ StagesDone
    /\ Len(fs_route_stops) = MaxRouteStops
    /\ \E x \in DOMAIN fs_result.stages : fs_result.stages[x] = 2
    /\ \E i \in 1..(Len(fs_route_stops) - 1) :
          fs_result.stages[fs_route_stops[i]]
              = fs_result.stages[fs_route_stops[i + 1]]

\* The distance from the first stop to the stop at place k
CumulativeDistance(dists, k) == Sum(SubSeq(dists, 1, k - 1))

\* The emitted second of the stop at place k is the one the pure
\* distance-proportional time start + duration * cumulative / total falls
\* in, up to the rounding of each segment time and of the rescale to the
\* timestamp resolution (half a tick each) and the second the HH:MM:SS
\* format drops; both sides are multiplied by the total distance
NearProportional(k, start_second, duration, dists, total) ==
    LET elapsed == (Arrival(k) - start_second) * TicksPerSecond
        exact == TicksPerSecond * duration * CumulativeDistance(dists, k)
        rounding == (Len(dists) + 1) * total
    IN  /\ elapsed * total <= exact + rounding
        /\ (elapsed + TicksPerSecond) * total > exact - rounding

\* C25: for a trip with end_time > start_time and positive total
\* distance, the floor engages on every segment of positive length
\* whenever it engages on one, and every emitted timestamp equals the
\* distance-proportional one up to rounding, with or without the floor.
C25_FloorCancelledByRescale ==
    (TripEmitted /\ InEnd > InStart) =>
        LET dists == InDists
            total == Sum(dists)
            duration == InDuration
            start_second == strftime(InStart)
            Floored(i) ==
                RatGt(min_time_seconds(dists[i]),
                      prop_time(duration, dists[i], total, Len(dists)))
        IN  total > 0 =>
              /\ (\E i \in 1..Len(dists) : Floored(i)) =>
                    \A i \in 1..Len(dists) : dists[i] > 0 => Floored(i)
              /\ \A k \in 1..Len(stop_times) :
                    NearProportional(k, start_second, duration, dists, total)

\* C25 witness: the floor engaged on a trip of unequal segments, one of
\* them of length 0, and the times were scaled back
C25_Witness ==
    /\ TripEmitted
    /\ InEnd > InStart
    /\ Len(InDists) = MaxStops - 1
    /\ FloorEngaged
    /\ InRescaled
    /\ \E i \in 1..Len(InDists) : InDists[i] = 0
    /\ \E i, j \in 1..Len(InDists) : 0 < InDists[i] /\ InDists[i] < InDists[j]

\* A stop's coordinates are missing or unusable: the field is absent,
\* null, or not a number
Unusable(coord) == coord.kind \in {"absent", "null", "bad"}

\* The places of the segments with an unusable coordinate at either end
UnusableSegments ==
    {i \in 1..(Len(in_stops) - 1) :
        Unusable(in_stops[i].coord) \/ Unusable(in_stops[i + 1].coord)}

\* The entry has been processed, its times parse and end after the start
ProcessedInWindow ==
    /\ pc = "trip_done"
    /\ TripIsAdded(in_trip)
    /\ strptime(in_trip.endtime) > strptime(in_trip.starttime)

\* C23: when a stop of a consecutive pair has missing or unusable
\* coordinates, the segment's distance is the default 0.5 km and the trip
\* gets its N StopTime rows.
\* A null coordinate makes float() raise TypeError, which the except
\* (KeyError, ValueError) of the distance loop does not catch: the trip
\* is left without any StopTime row.
C23_UnusableCoordinatesDefault ==
    (ProcessedInWindow /\ UnusableSegments # {}) =>
        /\ \A i \in UnusableSegments : InDists[i] = DefaultDistance
        /\ Len(stop_times) = Len(in_stops)

----------------------------------------------------------------------------
(* The documents of ../raw/ *)

MaxTrips == 2

Directions == <<"UP", "DOWN">>

\* "{} {}".format(route_id, direction): the shape id of a route-direction,
\* and the name of its documents without the ".json" suffix
ShapeId(route_id, direction) == route_id \o " " \o direction

\* A file that os.listdir does not return
MissingFile == [kind |-> "missing"]

\* A file of size 0
EmptyFile == [kind |-> "empty"]

\* A file json.load cannot parse
InvalidFile == [kind |-> "invalid"]

\* The document of a directory under a name, MissingFile if it has none
FileOf(directory, name) == Get(directory, name, MissingFile)

StationNames == <<"Majestic", "Market", "Hebbal", "Yelahanka", "Domlur", "Attibele">>

\* A stop record of a stops document
StopRecord(k, coord) ==
    [stationid |-> StationIds[k], stationname |-> StationNames[k], coord |-> coord]

\* A stops document: {"up": {"data": [...]}, "down": {"data": [...]}}
StopsFile(up, down) == [kind |-> "ok", up |-> up, down |-> down]

\* A routeline document: {"data": [points]}
RoutelineFile(points) == [kind |-> "ok", data |-> points]

\* A timetable document: {"Message": ..., "data": [{"tostationname": ...,
\* "tripdetails": ...}]}; tripdetails is a list ("list"), a missing key
\* ("absent") or null ("null")
TimetableFile(message, data) == [kind |-> "ok", Message |-> message, data |-> data]

TripDetails(items) == [kind |-> "list", items |-> items]

DaySchedule(tripdetails) == [tostationname |-> "Hebbal", tripdetails |-> tripdetails]

\* routes.json: {"data": [...]}
RoutesFile(data) == [kind |-> "ok", data |-> data]

\* An entry of routes.json: {"routeno": ..., "fromstation": ..., "tostation": ...};
\* a routeno is a route number followed by " UP", " DOWN" or nothing
RouteEntry(number, suffix, from, to) ==
    [routeno |-> [number |-> number, suffix |-> suffix],
     fromstation |-> from, tostation |-> to]

\* A translation document: {"data": [{"stopid": ..., "geofencename": ...}]};
\* kn tells whether the file name ends with "_kn.json"; a stopid or a
\* geofencename of "" is one that is missing or empty
TranslationFile(kn, data) == [kind |-> "ok", kn |-> kn, data |-> data]

TranslationRecord(stopid, geofencename) ==
    [stopid |-> stopid, geofencename |-> geofencename]

\* fares/stop_codes.json: {stop id: stop code}
StopCodesFile(codes) == [kind |-> "ok", codes |-> codes]

\* A fare document: {"data": [{"fare": ...}]}; the fare is a number
\* ("num", value in thousandths of a rupee), a non-numeric string ("bad"),
\* null ("null") or a missing key ("absent")
FareFile(data) == [kind |-> "ok", data |-> data]

FareRecord(kind, value) == [fare |-> [kind |-> kind, value |-> value]]

\* f"{stop_a_code}_{stop_b_code}": the name of the fare document of a
\* pair of stop codes without the ".json" suffix
FareKey(stop_a_code, stop_b_code) == stop_a_code \o "_" \o stop_b_code

----------------------------------------------------------------------------
(* add_stops, add_routes, add_shapes *)

\* GTFSWriter.add_stop
add_stop(stop_id, coord, name) ==
    [stop_id |-> stop_id, stop_name |-> name, stop_coord |-> coord,
     zone_id |-> stop_id]

\* The loop without the test "not in gtfs.stops": the record sighted last
\* replaces the one registered
RECURSIVE AddStopList_overwrite(_, _, _)
AddStopList_overwrite(registry, list, k) ==
    IF k > Len(list) THEN registry
    ELSE IF list[k].coord.kind = "absent" THEN registry
    ELSE AddStopList_overwrite(Put(registry, list[k].stationid,
                                   add_stop(list[k].stationid, list[k].coord,
                                            list[k].stationname)),
                               list, k + 1)

\* The loop over data["up"]["data"] + data["down"]["data"]: a stop whose id
\* is registered is passed over; reading a missing coordinate key raises
\* KeyError, which ends the document with the stops added so far kept
RECURSIVE AddStopList(_, _, _)
AddStopList(registry, list, k) ==
    IF k > Len(list) THEN registry
    ELSE IF list[k].stationid \in DOMAIN registry
         THEN AddStopList(registry, list, k + 1)
    ELSE IF list[k].coord.kind = "absent" THEN registry
    ELSE AddStopList(Put(registry, list[k].stationid,
                         add_stop(list[k].stationid, list[k].coord,
                                  list[k].stationname)),
                     list, k + 1)

\* One file of ../raw/stops/
AddStopsFile(registry, file) ==
    IF file.kind = "ok" THEN AddStopList(registry, file.up \o file.down, 1)
    ELSE registry

RECURSIVE AddStopsFiles(_, _, _, _)
AddStopsFiles(registry, directory, order, k) ==
    IF k > Len(order) THEN registry
    ELSE AddStopsFiles(AddStopsFile(registry, directory[order[k]]),
                       directory, order, k + 1)

\* The orders os.listdir may return the names in
ListDirOrders(directory) ==
    {o \in [1..Cardinality(DOMAIN directory) -> DOMAIN directory] :
        \A i, j \in DOMAIN o : i # j => o[i] # o[j]}

\* route["routeno"].replace(" UP", "").replace(" DOWN", "")
route_id_name(routeno) == routeno.number

\* The place of a route id in gtfs.routes, 0 if it has none
RouteIndex(registry, route_id) ==
    IF \E i \in 1..Len(registry) : registry[i].route_id = route_id
    THEN CHOOSE i \in 1..Len(registry) : registry[i].route_id = route_id
    ELSE 0

\* GTFSWriter.add_route; the route numbers have no space and at most 12
\* characters, so the short name is the name passed
add_route(route_id, short_name, long_name) ==
    [route_id |-> route_id, route_short_name |-> short_name,
     route_long_name |-> long_name, route_type |-> "3"]

\* The loop over routes_json["data"]; gtfs.routes keeps insertion order
RECURSIVE AddRouteList(_, _, _)
AddRouteList(registry, list, k) ==
    IF k > Len(list) THEN registry
    ELSE LET id == route_id_name(list[k].routeno)
         IN  IF RouteIndex(registry, id) # 0
             THEN AddRouteList(registry, list, k + 1)
             ELSE AddRouteList(
                      Append(registry,
                             add_route(id, id, <<list[k].fromstation,
                                                 list[k].tostation>>)),
                      list, k + 1)

\* GTFSWriter.add_shape_point for every point of a routeline document
ShapePoints(shape_id, points) ==
    [i \in 1..Len(points) |->
        [shape_id |-> shape_id, shape_pt |-> points[i], shape_pt_sequence |-> i]]

\* gtfs.shapes after add_shapes: a shape for every routeline document
\* that has at least one point
ShapesOf(directory) ==
    [name \in {n \in DOMAIN directory :
                 directory[n].kind = "ok" /\ Len(directory[n].data) > 0} |->
        ShapePoints(name, directory[name].data)]

----------------------------------------------------------------------------
(* add_trips: the loop over the route-directions *)

\* The route-directions in the order of the two nested loops
RouteDirections(registry) ==
    [k \in 1..(2 * Len(registry)) |->
        [route_id |-> registry[(k + 1) \div 2].route_id,
         direction |-> Directions[2 - (k % 2)]]]

\* The checks without the one for the shape
RouteDirectionOutcome_unchecked_shape(name, shape_registry, stops_file, timetable) ==
    IF stops_file.kind = "missing" THEN "noStops"
    ELSE IF stops_file.kind = "empty" THEN "noStops"
    ELSE IF stops_file.kind = "invalid" THEN "failedTrips"
    ELSE IF timetable.kind = "missing" THEN "noTimetables"
    ELSE IF timetable.kind = "empty" THEN "noTimetables"
    ELSE IF timetable.kind = "invalid" THEN "failedTrips"
    ELSE IF timetable.data = <<>> THEN "noTimetables"
    ELSE IF timetable.Message = "No Records Found." THEN "noTimetables"
    ELSE IF timetable.data[1].tripdetails.kind = "absent" THEN "failedTrips"
    ELSE IF timetable.data[1].tripdetails.kind = "null" THEN "failedTrips"
    ELSE "trips"

\* The outcome of the checks made before the trips of a route-direction
\* are processed, in the order the code makes them
RouteDirectionOutcome(name, shape_registry, stops_file, timetable) ==
    IF stops_file.kind = "missing" THEN "noStops"
    ELSE IF stops_file.kind = "empty" THEN "noStops"
    ELSE IF name \notin DOMAIN shape_registry THEN "noShapes"
    ELSE IF stops_file.kind = "invalid" THEN "failedTrips"
    ELSE IF timetable.kind = "missing" THEN "noTimetables"
    ELSE IF timetable.kind = "empty" THEN "noTimetables"
    ELSE IF timetable.kind = "invalid" THEN "failedTrips"
    ELSE IF timetable.data = <<>> THEN "noTimetables"
    ELSE IF timetable.Message = "No Records Found." THEN "noTimetables"
    ELSE IF timetable.data[1].tripdetails.kind = "absent" THEN "failedTrips"
    ELSE IF timetable.data[1].tripdetails.kind = "null" THEN "failedTrips"
    ELSE "trips"

\* stops[direction.lower()]["data"]
StopsDataOf(stops_file, direction) ==
    IF direction = "UP" THEN stops_file.up ELSE stops_file.down

\* cleanup_trips: stop_counts
stop_counts(stop_time_rows) ==
    [id \in {stop_time_rows[i].trip_id : i \in DOMAIN stop_time_rows} |->
        Cardinality({i \in DOMAIN stop_time_rows : stop_time_rows[i].trip_id = id})]

\* cleanup_trips: single_stop_trips
single_stop_trips(stop_time_rows) ==
    {id \in DOMAIN stop_counts(stop_time_rows) : stop_counts(stop_time_rows)[id] <= 1}

\* Rows removed from the list that is being iterated: the row after a
\* removed row is passed over, whatever its trip id
RECURSIVE WithoutTrips_remove_in_place(_, _)
WithoutTrips_remove_in_place(rows, ids) ==
    IF rows = <<>> THEN <<>>
    ELSE IF Head(rows).trip_id \in ids
         THEN IF Len(rows) = 1 THEN <<>>
              ELSE <<rows[2]>> \o WithoutTrips_remove_in_place(Tail(Tail(rows)), ids)
    ELSE <<Head(rows)>> \o WithoutTrips_remove_in_place(Tail(rows), ids)

\* [x for x in rows if x['trip_id'] not in ids]
RECURSIVE WithoutTrips(_, _)
WithoutTrips(rows, ids) ==
    IF rows = <<>> THEN <<>>
    ELSE IF Head(rows).trip_id \in ids THEN WithoutTrips(Tail(rows), ids)
    ELSE <<Head(rows)>> \o WithoutTrips(Tail(rows), ids)

\* cleanup_trips
cleanup_trips(trip_rows, stop_time_rows) ==
    LET ids == single_stop_trips(stop_time_rows)
    IN  [trips |-> WithoutTrips(trip_rows, ids),
         stop_times |-> WithoutTrips(stop_time_rows, ids)]

----------------------------------------------------------------------------
(* add_translations *)

\* A list of pairs in place of the dict: every assignment adds an item
SetItem_append(items, key, value) ==
    Append(items, [key |-> key, value |-> value])

\* d[key] = value on a dict kept as the sequence of its items in insertion
\* order: a key that is present keeps its place
SetItem(items, key, value) ==
    IF \E i \in DOMAIN items : items[i].key = key
    THEN [i \in DOMAIN items |->
            IF items[i].key = key THEN [key |-> key, value |-> value]
            ELSE items[i]]
    ELSE Append(items, [key |-> key, value |-> value])

\* The loop over data["data"] of a translation document
RECURSIVE TranslateList(_, _, _)
TranslateList(items, list, k) ==
    IF k > Len(list) THEN items
    ELSE IF list[k].stopid = "" THEN TranslateList(items, list, k + 1)
    ELSE TranslateList(SetItem(items, list[k].stopid, list[k].geofencename),
                       list, k + 1)

\* One file of ../raw/translations/
TranslationsFile(items, file) ==
    IF file.kind = "ok" /\ file.kn THEN TranslateList(items, file.data, 1)
    ELSE items

\* translations_data after the loop over the directory
RECURSIVE TranslationsData(_, _, _, _)
TranslationsData(items, directory, order, k) ==
    IF k > Len(order) THEN items
    ELSE TranslationsData(TranslationsFile(items, directory[order[k]]),
                          directory, order, k + 1)

\* GTFSWriter.add_translation
add_translation(table_name, field_name, record_id, language, translation) ==
    [table_name |-> table_name, field_name |-> field_name,
     record_id |-> record_id, language |-> language,
     translation |-> translation]

\* The loop over translations_data.items()
RECURSIVE AddTranslationList(_, _, _, _)
AddTranslationList(rows, items, stop_registry, k) ==
    IF k > Len(items) THEN rows
    ELSE IF items[k].key \in DOMAIN stop_registry /\ items[k].value # ""
         THEN AddTranslationList(
                  Append(rows, add_translation("stops", "stop_name", items[k].key,
                                               "kn", items[k].value)),
                  items, stop_registry, k + 1)
    ELSE AddTranslationList(rows, items, stop_registry, k + 1)

----------------------------------------------------------------------------
(* add_fares *)

\* f"{x:.2f}" of a fare: the hundredths of a rupee nearest to it (the
\* fares of the bounded sets are no ties)
Format2f(value) == RoundHalfEven(value, 10)

\* f"fare_{fare_value:.2f}", written as the hundredths it spells
FareId(fare_value) == Format2f(fare_value)

\* GTFSWriter.add_fare_attribute with the arguments add_fares passes
add_fare_attribute(fare_id, price) ==
    [fare_id |-> fare_id, price |-> Format2f(price), currency_type |-> "INR",
     payment_method |-> 0, transfers |-> "", agency_id |-> "1"]

\* GTFSWriter.add_fare_rule
add_fare_rule(fare_id, route_id, origin_id, destination_id) ==
    [fare_id |-> fare_id, route_id |-> route_id, origin_id |-> origin_id,
     destination_id |-> destination_id]

\* trip_to_route.get(trip_id), "" for None
TripToRoute(trip_rows, trip_id) ==
    IF \E i \in DOMAIN trip_rows : trip_rows[i].trip_id = trip_id
    THEN trip_rows[CHOOSE i \in DOMAIN trip_rows :
                      /\ trip_rows[i].trip_id = trip_id
                      /\ \A j \in DOMAIN trip_rows :
                            trip_rows[j].trip_id = trip_id => j <= i].route_id
    ELSE ""

\* The keys of route_stops_map in insertion order
RECURSIVE RouteStopsKeys(_, _, _, _)
RouteStopsKeys(keys, trip_rows, stop_time_rows, k) ==
    IF k > Len(stop_time_rows) THEN keys
    ELSE LET route_id == TripToRoute(trip_rows, stop_time_rows[k].trip_id)
         IN  IF route_id = "" \/ \E i \in DOMAIN keys : keys[i] = route_id
             THEN RouteStopsKeys(keys, trip_rows, stop_time_rows, k + 1)
             ELSE RouteStopsKeys(Append(keys, route_id), trip_rows,
                                 stop_time_rows, k + 1)

\* The stop ids in the order sorted() puts them in
StopIdOrder == <<"S1", "S2", "S3", "S4", "S5", "S6">>

\* The stops of every StopTime row, whatever the route of its trip
RouteStops_every_row(route_id, trip_rows, stop_time_rows) ==
    LET Served(stop_id) ==
            \E i \in DOMAIN stop_time_rows : stop_time_rows[i].stop_id = stop_id
    IN  SelectSeq(StopIdOrder, Served)

\* sorted(list(route_stops_map[route_id]))
RouteStops(route_id, trip_rows, stop_time_rows) ==
    LET Served(stop_id) ==
            \E i \in DOMAIN stop_time_rows :
                /\ stop_time_rows[i].stop_id = stop_id
                /\ TripToRoute(trip_rows, stop_time_rows[i].trip_id) = route_id
    IN  SelectSeq(StopIdOrder, Served)

\* fare_data_cache: the fare of every fare document that has data and a
\* numeric fare
fare_data_cache(files) ==
    [name \in {n \in DOMAIN files :
                 /\ files[n].kind = "ok"
                 /\ files[n].data # <<>>
                 /\ files[n].data[1].fare.kind = "num"} |->
        files[name].data[1].fare.value]

\* failed_fares: the fare documents whose processing raises (json.load,
\* or the KeyError of a missing "fare")
FailedFares(files) ==
    {n \in DOMAIN files :
        \/ files[n].kind = "invalid"
        \/ /\ files[n].kind = "ok"
           /\ files[n].data # <<>>
           /\ files[n].data[1].fare.kind = "absent"}

\* unique_fares
unique_fares(cache) == {cache[name] : name \in DOMAIN cache}

\* The attributes keyed by the fare value itself, not by its two-decimal id
FareAttributes_unformatted(attributes, fares) ==
    [id \in DOMAIN attributes \cup fares |->
        IF id \in fares THEN add_fare_attribute(id, id) ELSE attributes[id]]

\* gtfs.fare_attributes after the loop over unique_fares
FareAttributes(attributes, fares) ==
    [id \in DOMAIN attributes \cup {FareId(v) : v \in fares} |->
        IF id \in {FareId(v) : v \in fares}
        THEN add_fare_attribute(id, CHOOSE v \in fares : FareId(v) = id)
        ELSE attributes[id]]

\* The two nested loops over the stops of a route, from the pair (i, j)
RECURSIVE RouteFareRules(_, _, _, _, _, _, _)
RouteFareRules(rules, route_id, route_stops, stop_codes, cache, i, j) ==
    IF i > Len(route_stops) THEN rules
    ELSE IF j > Len(route_stops)
         THEN RouteFareRules(rules, route_id, route_stops, stop_codes, cache,
                             i + 1, i + 2)
    ELSE LET stop_a_code == Get(stop_codes, route_stops[i], "")
             stop_b_code == Get(stop_codes, route_stops[j], "")
             matched == /\ stop_a_code # ""
                        /\ stop_b_code # ""
                        /\ FareKey(stop_a_code, stop_b_code) \in DOMAIN cache
         IN  RouteFareRules(
                 IF matched
                 THEN Append(rules,
                          add_fare_rule(FareId(cache[FareKey(stop_a_code, stop_b_code)]),
                                        route_id, route_stops[i], route_stops[j]))
                 ELSE rules,
                 route_id, route_stops, stop_codes, cache, i, j + 1)

\* The loop over route_stops_map.items()
RECURSIVE FareRules(_, _, _, _, _, _, _)
FareRules(rules, keys, trip_rows, stop_time_rows, stop_codes, cache, k) ==
    IF k > Len(keys) THEN rules
    ELSE FareRules(
             RouteFareRules(rules, keys[k],
                            RouteStops(keys[k], trip_rows, stop_time_rows),
                            stop_codes, cache, 1, 2),
             keys, trip_rows, stop_time_rows, stop_codes, cache, k + 1)

\* route_fare_rules of a route of route_stops_map
route_fare_rules(route_id, trip_rows, stop_time_rows, stop_codes, cache) ==
    Len(RouteFareRules(<<>>, route_id,
                       RouteStops(route_id, trip_rows, stop_time_rows),
                       stop_codes, cache, 1, 2))

\* Every route of route_stops_map counted as a route with fares
RoutesWithFares_every_route(keys, trip_rows, stop_time_rows, stop_codes, cache) ==
    Len(keys)

\* routes_with_fares after the loop over route_stops_map
RoutesWithFares(keys, trip_rows, stop_time_rows, stop_codes, cache) ==
    Cardinality({k \in DOMAIN keys :
        route_fare_rules(keys[k], trip_rows, stop_time_rows, stop_codes, cache) > 0})

----------------------------------------------------------------------------
(* GTFSWriter.write_gtfs *)

\* GTFSWriter.write_agency
write_agency ==
    <<[agency_id |-> "1", agency_name |-> "BMTC",
       agency_url |-> "https://mybmtc.karnataka.gov.in/english",
       agency_timezone |-> "Asia/Kolkata"]>>

\* GTFSWriter.write_calendar
write_calendar ==
    <<[service_id |-> "1", monday |-> "1", tuesday |-> "1", wednesday |-> "1",
       thursday |-> "1", friday |-> "1", saturday |-> "1", sunday |-> "1",
       start_date |-> "20250401", end_date |-> "20260331"]>>

\* GTFSWriter.write_feed_info; feed_version is the date of the run
write_feed_info ==
    <<[feed_publisher_name |-> "Vonter",
       feed_publisher_url |-> "https://github.com/Vonter/bmtc-gtfs",
       feed_lang |-> "en", feed_start_date |-> "20250401",
       feed_end_date |-> "20260331", feed_version |-> "%Y%m%d",
       feed_contact_email |-> "me@vonter.in",
       feed_contact_url |-> "https://github.com/Vonter/bmtc-gtfs"]>>

\* files_to_write; a dict of the registry is written as it is kept here
files_to_write ==
    [name \in {"agency.txt", "calendar.txt", "stops.txt", "routes.txt",
               "shapes.txt", "trips.txt", "stop_times.txt",
               "translations.txt", "feed_info.txt", "fare_attributes.txt",
               "fare_rules.txt"} |->
        CASE name = "agency.txt" -> write_agency
          [] name = "calendar.txt" -> write_calendar
          [] name = "stops.txt" -> stops
          [] name = "routes.txt" -> routes
          [] name = "shapes.txt" -> shapes
          [] name = "trips.txt" -> trips
          [] name = "stop_times.txt" -> stop_times
          [] name = "translations.txt" -> translations
          [] name = "feed_info.txt" -> write_feed_info
          [] name = "fare_attributes.txt" -> fare_attributes
          [] name = "fare_rules.txt" -> fare_rules]

\* The tables written: a table without data is passed over
WrittenFiles ==
    [name \in {n \in DOMAIN files_to_write : files_to_write[n] # <<>>} |->
        files_to_write[name]]

----------------------------------------------------------------------------
(* Spec: the run of gtfs.py over every ../raw/ directory of the bounded sets *)

\* The stop lists of a direction of a stops document
StopLists ==
    {<<>>,
     <<StopRecord(1, [kind |-> "num", pos |-> 0])>>,
     <<StopRecord(1, [kind |-> "num", pos |-> 0]),
       StopRecord(2, [kind |-> "num", pos |-> 4])>>,
     <<StopRecord(1, [kind |-> "num", pos |-> 0]),
       StopRecord(2, [kind |-> "null", pos |-> 0]),
       StopRecord(3, [kind |-> "num", pos |-> 5])>>,
     <<StopRecord(1, [kind |-> "num", pos |-> 0]),
       StopRecord(2, [kind |-> "absent", pos |-> 0]),
       StopRecord(3, [kind |-> "num", pos |-> 5])>>}

\* The entries of a timetable
TimetableEntries ==
    {Entry(HHMM(8, 0), HHMM(8, 10)), Entry(AbsentTime, HHMM(8, 10)),
     Entry(HHMM(8, 0), BadTime)}

TwoPoints == <<0, 5>>

\* The documents of one route-direction
Bundle(stops_file, routeline, timetable) ==
    [stops |-> stops_file, routeline |-> routeline, timetable |-> timetable]

GoodTimetable(items) == TimetableFile("", <<DaySchedule(TripDetails(items))>>)

\* Route-directions add_trips gives up before the first entry
SkippedBundles(stops_file) ==
    {Bundle(MissingFile, RoutelineFile(TwoPoints), GoodTimetable(<<>>)),
     Bundle(EmptyFile, RoutelineFile(TwoPoints), GoodTimetable(<<>>)),
     Bundle(InvalidFile, RoutelineFile(TwoPoints), GoodTimetable(<<>>)),
     Bundle(stops_file, MissingFile, GoodTimetable(<<>>)),
     Bundle(stops_file, RoutelineFile(<<>>), GoodTimetable(<<>>)),
     Bundle(stops_file, RoutelineFile(TwoPoints), MissingFile),
     Bundle(stops_file, RoutelineFile(TwoPoints), EmptyFile),
     Bundle(stops_file, RoutelineFile(TwoPoints), InvalidFile),
     Bundle(stops_file, RoutelineFile(TwoPoints), TimetableFile("", <<>>)),
     Bundle(stops_file, RoutelineFile(TwoPoints),
            TimetableFile("No Records Found.", <<DaySchedule(TripDetails(<<>>))>>)),
     Bundle(stops_file, RoutelineFile(TwoPoints),
            TimetableFile("", <<DaySchedule([kind |-> "absent"])>>)),
     Bundle(stops_file, RoutelineFile(TwoPoints),
            TimetableFile("", <<DaySchedule([kind |-> "null"])>>))}

UpBundles ==
    SkippedBundles(StopsFile(<<StopRecord(1, [kind |-> "num", pos |-> 0])>>, <<>>))
    \cup {Bundle(StopsFile(l, <<>>), RoutelineFile(TwoPoints), GoodTimetable(t)) :
              l \in StopLists, t \in SeqsUpTo(TimetableEntries, MaxTrips)}

\* The DOWN direction lists the stops against the UP order
DownStops ==
    <<StopRecord(4, [kind |-> "num", pos |-> 7]),
      StopRecord(1, [kind |-> "num", pos |-> 2])>>

DownBundles ==
    {Bundle(MissingFile, RoutelineFile(TwoPoints), GoodTimetable(<<>>))}
    \cup {Bundle(StopsFile(<<>>, DownStops), RoutelineFile(TwoPoints),
                 GoodTimetable(t)) : t \in SeqsUpTo(TimetableEntries, 1)}

\* routes.json lists route R1 once for each direction
RoutesJson ==
    <<RouteEntry("R1", " UP", "Majestic", "Hebbal"),
      RouteEntry("R1", " DOWN", "Hebbal", "Majestic")>>

\* routes.json lists route R2 before route R1
RoutesJsonTwo ==
    <<RouteEntry("R2", " UP", "Domlur", "Attibele")>> \o RoutesJson

\* A directory of the documents of the files that exist
Directory(files) ==
    [name \in {n \in DOMAIN files : files[n].kind # "missing"} |-> files[name]]

\* The documents of route R1
OneRoute(up, down) ==
    [name \in {"R1 UP", "R1 DOWN"} |-> IF name = "R1 UP" THEN up ELSE down]

\* Route R2 runs UP only, between two stops no fare was asked for
R2Up ==
    Bundle(StopsFile(<<StopRecord(5, [kind |-> "num", pos |-> 0]),
                       StopRecord(6, [kind |-> "num", pos |-> 4])>>, <<>>),
           RoutelineFile(TwoPoints),
           GoodTimetable(<<Entry(HHMM(8, 0), HHMM(8, 10))>>))

\* The documents of routes R1 and R2
TwoRoutes(up, down) ==
    [name \in {"R1 UP", "R1 DOWN", "R2 UP"} |->
        CASE name = "R1 UP" -> up
          [] name = "R1 DOWN" -> down
          [] name = "R2 UP" -> R2Up]

\* ../raw/translations/: no file, or a Kannada file and an English one
TranslationDirectories ==
    {<<>>,
     [name \in {"stops_kn", "stops_en"} |->
        IF name = "stops_kn"
        THEN TranslationFile(TRUE,
                 <<TranslationRecord("S1", "kn-Majestic"),
                   TranslationRecord("S5", "kn-Domlur"),
                   TranslationRecord("S2", ""),
                   TranslationRecord("", "kn-Hebbal"),
                   TranslationRecord("S1", "kn-Kempegowda")>>)
        ELSE TranslationFile(FALSE, <<TranslationRecord("S4", "Yelahanka")>>)]}

StopCodes ==
    [stop_id \in {"S1", "S2", "S3", "S4"} |->
        CASE stop_id = "S1" -> "MJS"
          [] stop_id = "S2" -> "MKT"
          [] stop_id = "S3" -> "YLK"
          [] stop_id = "S4" -> ""]

FareDocuments ==
    [name \in {"MJS_MKT", "MJS_YLK", "MKT_YLK", "YLK_MJS", "YLK_MKT", "MKT_MJS"} |->
        CASE name = "MJS_MKT" -> FareFile(<<FareRecord("num", Rupees(10))>>)
          [] name = "MJS_YLK" -> FareFile(<<FareRecord("num", Rupees(10) + 4)>>)
          [] name = "MKT_YLK" -> FareFile(<<FareRecord("bad", 0)>>)
          [] name = "YLK_MJS" -> FareFile(<<FareRecord("num", Rupees(15))>>)
          [] name = "YLK_MKT" -> FareFile(<<>>)
          [] name = "MKT_MJS" -> InvalidFile]

\* ../raw/fares/: no stop_codes.json, or stop codes with or without fare
\* documents
FareDirectories ==
    {[stop_codes |-> MissingFile, files |-> FareDocuments],
     [stop_codes |-> StopCodesFile(StopCodes), files |-> <<>>],
     [stop_codes |-> StopCodesFile(StopCodes), files |-> FareDocuments],
     [stop_codes |-> StopCodesFile(StopCodes),
      files |-> [name \in {"YLK_MJS"} |-> FareDocuments[name]]]}

RawOf(routes_file, bundles, translation_files, fare_files) ==
    [routes |-> routes_file,
     stops |-> Directory([n \in DOMAIN bundles |-> bundles[n].stops]),
     routelines |-> Directory([n \in DOMAIN bundles |-> bundles[n].routeline]),
     timetables |-> Directory([n \in DOMAIN bundles |-> bundles[n].timetable]),
     translations |-> translation_files,
     fares |-> fare_files]

\* The UP documents of R1 when R2 is listed too
ShortUpBundles ==
    {Bundle(StopsFile(<<StopRecord(1, [kind |-> "num", pos |-> 0])>>, <<>>),
            MissingFile, GoodTimetable(<<>>))}
    \cup {Bundle(StopsFile(l, <<>>), RoutelineFile(TwoPoints), GoodTimetable(t)) :
              l \in StopLists, t \in SeqsUpTo(TimetableEntries, 1)}

\* The ../raw/ directories: route R1 alone, routes R2 and R1, and no route
\* (routes.json missing or with an empty list)
RawDirectories ==
    {RawOf(RoutesFile(RoutesJson), OneRoute(up, down), t, f) :
        up \in UpBundles, down \in DownBundles,
        t \in TranslationDirectories,
        f \in {d \in FareDirectories : d.files = FareDocuments}}
    \cup
    {RawOf(RoutesFile(RoutesJsonTwo), TwoRoutes(up, down), t, f) :
        up \in ShortUpBundles, down \in DownBundles,
        t \in TranslationDirectories, f \in FareDirectories}
    \cup
    {RawOf(r, OneRoute(up, down), t, f) :
        r \in {MissingFile, RoutesFile(<<>>)},
        up \in ShortUpBundles, down \in DownBundles,
        t \in {<<>>},
        f \in {d \in FareDirectories : d.stop_codes.kind = "missing"}}

Init ==
    /\ pc = "add_stops"
    /\ raw \in RawDirectories
    /\ InitRegistry
    /\ InitLoop
    /\ InitFares
    /\ InitScraper
    /\ trip_counter = 0
    /\ in_trip = NoTrip
    /\ in_stops = <<>>
    /\ fs_fares = <<>>
    /\ fs_route_stops = <<>>
    /\ fs_result = NotRun

add_stops ==
    /\ pc = "add_stops"
    /\ pc' = "add_routes"
    /\ \E order \in ListDirOrders(raw.stops) :
          stops' = AddStopsFiles(stops, raw.stops, order, 1)
    /\ UNCHANGED <<raw, scraperVars, outputVars, routes, shapes, trips, stop_times, trip_counter,
                   loopVars, listVars, tripInputVars, stageVars, fareVars>>

\* json.load(open(json_file)) is outside any try: without a routes.json
\* that parses the exception ends the run
add_routes ==
    /\ pc = "add_routes"
    /\ IF raw.routes.kind = "ok"
       THEN /\ pc' = "add_shapes"
            /\ routes' = AddRouteList(routes, raw.routes.data, 1)
       ELSE /\ pc' = "aborted"
            /\ routes' = routes
    /\ UNCHANGED <<raw, scraperVars, outputVars, stops, shapes, trips, stop_times, trip_counter,
                   loopVars, listVars, tripInputVars, stageVars, fareVars>>

add_shapes ==
    /\ pc = "add_shapes"
    /\ pc' = "add_trips"
    /\ shapes' = ShapesOf(raw.routelines)
    /\ UNCHANGED <<raw, scraperVars, outputVars, stops, routes, trips, stop_times, trip_counter,
                   loopVars, listVars, tripInputVars, stageVars, fareVars>>

\* add_trips up to the loop over gtfs.routes
add_trips_begin ==
    /\ pc = "add_trips"
    /\ pc' = "route_direction"
    /\ trip_counter' = 0
    /\ rd_index' = 1
    /\ trip_index' = 0
    /\ addedTrips' = <<>>
    /\ failedTrips' = <<>>
    /\ noStops' = <<>>
    /\ noTimetables' = <<>>
    /\ noShapes' = <<>>
    /\ UNCHANGED <<raw, scraperVars, outputVars, registryVars, tripInputVars, stageVars, fareVars>>

\* The route-direction of the loop
route_direction == RouteDirections(routes)[rd_index]

filename == ShapeId(route_direction.route_id, route_direction.direction)

timetables == FileOf(raw.timetables, filename)

trip_details == timetables.data[1].tripdetails.items

\* The body without the continue after noShapes.append: the checks go on
\* as if the shape were there
add_trips_route_direction_no_continue ==
    /\ pc = "route_direction"
    /\ rd_index <= Len(RouteDirections(routes))
    /\ LET first == RouteDirectionOutcome(filename, shapes,
                        FileOf(raw.stops, filename), timetables)
           outcome == IF first = "noShapes"
                      THEN RouteDirectionOutcome(filename,
                               Put(shapes, filename, <<>>),
                               FileOf(raw.stops, filename), timetables)
                      ELSE first
       IN  /\ noStops' = IF outcome = "noStops" THEN Append(noStops, filename)
                         ELSE noStops
           /\ noShapes' = IF first = "noShapes" THEN Append(noShapes, filename)
                          ELSE noShapes
           /\ noTimetables' = IF outcome = "noTimetables"
                              THEN Append(noTimetables, filename)
                              ELSE noTimetables
           /\ failedTrips' = IF outcome = "failedTrips"
                             THEN Append(failedTrips, filename)
                             ELSE failedTrips
           /\ IF outcome = "trips"
              THEN pc' = "trip_details" /\ trip_index' = 1 /\ rd_index' = rd_index
              ELSE pc' = pc /\ trip_index' = 0 /\ rd_index' = rd_index + 1
    /\ UNCHANGED <<raw, scraperVars, outputVars, registryVars, trip_counter, addedTrips,
                   tripInputVars, stageVars, fareVars>>

\* The body of the loop over the route-directions up to "for trip in
\* trip_details"
add_trips_route_direction ==
    /\ pc = "route_direction"
    /\ rd_index <= Len(RouteDirections(routes))
    /\ LET outcome == RouteDirectionOutcome(filename, shapes,
                          FileOf(raw.stops, filename), timetables)
       IN  /\ noStops' = IF outcome = "noStops" THEN Append(noStops, filename)
                         ELSE noStops
           /\ noShapes' = IF outcome = "noShapes" THEN Append(noShapes, filename)
                          ELSE noShapes
           /\ noTimetables' = IF outcome = "noTimetables"
                              THEN Append(noTimetables, filename)
                              ELSE noTimetables
           /\ failedTrips' = IF outcome = "failedTrips"
                             THEN Append(failedTrips, filename)
                             ELSE failedTrips
           /\ IF outcome = "trips"
              THEN pc' = "trip_details" /\ trip_index' = 1 /\ rd_index' = rd_index
              ELSE pc' = pc /\ trip_index' = 0 /\ rd_index' = rd_index + 1
    /\ UNCHANGED <<raw, scraperVars, outputVars, registryVars, trip_counter, addedTrips, tripInputVars,
                   stageVars, fareVars>>

\* One iteration of "for trip in trip_details"
add_trips_trip ==
    /\ pc = "trip_details"
    /\ trip_index <= Len(trip_details)
    /\ trip_index' = trip_index + 1
    /\ TripEntry(route_direction.route_id, route_direction.direction, filename,
                 timetables.data[1].tostationname, trip_details[trip_index],
                 StopsDataOf(FileOf(raw.stops, filename), route_direction.direction))
    /\ UNCHANGED <<pc, raw, scraperVars, outputVars, stops, routes, shapes, rd_index,
                   listVars, tripInputVars, stageVars, fareVars>>

\* trip_counter started again for every route-direction
add_trips_added_counter_reset ==
    /\ pc = "trip_details"
    /\ trip_index > Len(trip_details)
    /\ pc' = "route_direction"
    /\ addedTrips' = Append(addedTrips, filename)
    /\ rd_index' = rd_index + 1
    /\ trip_index' = 0
    /\ trip_counter' = 0
    /\ UNCHANGED <<raw, scraperVars, outputVars, registryVars, failedTrips, noStops,
                   noTimetables, noShapes, tripInputVars, stageVars, fareVars>>

\* The end of "for trip in trip_details": addedTrips.append
add_trips_added ==
    /\ pc = "trip_details"
    /\ trip_index > Len(trip_details)
    /\ pc' = "route_direction"
    /\ addedTrips' = Append(addedTrips, filename)
    /\ rd_index' = rd_index + 1
    /\ trip_index' = 0
    /\ UNCHANGED <<raw, scraperVars, outputVars, registryVars, trip_counter, failedTrips, noStops,
                   noTimetables, noShapes, tripInputVars, stageVars, fareVars>>

\* The end of the loop over the route-directions, up to the call of
\* cleanup_trips; the noTimetables, noStops and noShapes lists are written
\* to missingTimetables.txt, missingStops.txt and missingShapes.txt as
\* they stand
add_trips_end ==
    /\ pc = "route_direction"
    /\ rd_index > Len(RouteDirections(routes))
    /\ pc' = "add_trips_cleanup"
    /\ UNCHANGED <<raw, scraperVars, outputVars, registryVars, trip_counter, loopVars, listVars,
                   tripInputVars, stageVars, fareVars>>

\* cleanup_trips(), called at the end of add_trips and after add_fares
CleanupTrips ==
    /\ pc \in {"add_trips_cleanup", "cleanup_trips"}
    /\ pc' = IF pc = "add_trips_cleanup" THEN "add_translations" ELSE "write_gtfs"
    /\ trips' = cleanup_trips(trips, stop_times).trips
    /\ stop_times' = cleanup_trips(trips, stop_times).stop_times
    /\ UNCHANGED <<raw, scraperVars, outputVars, stops, routes, shapes, trip_counter,
                   loopVars, listVars, tripInputVars, stageVars, fareVars>>

add_translations ==
    /\ pc = "add_translations"
    /\ pc' = "add_fares"
    /\ \E order \in ListDirOrders(raw.translations) :
          translations' =
              AddTranslationList(translations,
                  TranslationsData(<<>>, raw.translations, order, 1), stops, 1)
    /\ UNCHANGED <<raw, scraperVars, registryVars, fare_attributes, fare_rules, feed,
                   trip_counter, loopVars, listVars, tripInputVars, stageVars, fareVars>>

\* add_fares followed by write_gtfs, without the final cleanup_trips()
add_fares_without_cleanup ==
    /\ pc = "add_fares"
    /\ pc' = "write_gtfs"
    /\ UNCHANGED <<raw, scraperVars, registryVars, outputVars, trip_counter, loopVars,
                   listVars, tripInputVars, stageVars, fareVars>>

\* add_fares returns before anything is added when stop_codes.json cannot
\* be loaded
add_fares ==
    /\ pc = "add_fares"
    /\ pc' = "cleanup_trips"
    /\ IF raw.fares.stop_codes.kind # "ok"
       THEN UNCHANGED <<fare_attributes, fare_rules, fareVars>>
       ELSE LET cache == fare_data_cache(raw.fares.files)
                keys == RouteStopsKeys(<<>>, trips, stop_times, 1)
                stop_codes == raw.fares.stop_codes.codes
                with_fares == RoutesWithFares(keys, trips, stop_times,
                                              stop_codes, cache)
            IN  /\ failed_fares' = FailedFares(raw.fares.files)
                /\ fare_attributes' =
                      FareAttributes(fare_attributes, unique_fares(cache))
                /\ fare_rules' =
                      FareRules(fare_rules, keys, trips, stop_times,
                                stop_codes, cache, 1)
                /\ routes_with_fares' = with_fares
                /\ routes_without_fares' = Len(keys) - with_fares
    /\ UNCHANGED <<raw, scraperVars, registryVars, translations, feed, trip_counter,
                   loopVars, listVars, tripInputVars, stageVars>>

\* gtfs.write_gtfs(): intermediate/bmtc.zip
write_gtfs ==
    /\ pc = "write_gtfs"
    /\ pc' = "written"
    /\ feed' = WrittenFiles
    /\ UNCHANGED <<raw, scraperVars, registryVars, translations, fare_attributes,
                   fare_rules, trip_counter, loopVars, listVars,
                   tripInputVars, stageVars, fareVars>>

Next ==
    \/ add_stops
    \/ add_routes
    \/ add_shapes
    \/ add_trips_begin
    \/ add_trips_route_direction
    \/ add_trips_trip
    \/ add_trips_added
    \/ add_trips_end
    \/ CleanupTrips
    \/ add_translations
    \/ add_fares
    \/ write_gtfs

Spec == Init /\ [][Next]_vars

----------------------------------------------------------------------------
(* Properties of the run, checked under Spec *)

\* cleanup_trips has returned at least once
CleanupHasRun ==
    pc \in {"add_translations", "add_fares", "cleanup_trips", "write_gtfs",
            "written"}

\* The number of rows of gtfs.stop_times a trip owns
StopTimeCount(trip_id) ==
    Cardinality({i \in DOMAIN stop_times : stop_times[i].trip_id = trip_id})

\* C1 as stated: after cleanup_trips has run, every Trip of gtfs.trips,
\* whatever happened during its synthesis, owns at least 2 StopTime rows.
C1_EveryTripHasTwoStopTimes ==
    CleanupHasRun =>
        \A i \in DOMAIN trips : StopTimeCount(trips[i].trip_id) >= 2


----------------------------------------------------------------------------
(* Fares *)

\* add_fares has just returned after loading stop_codes.json
FaresProcessed ==
    /\ pc = "cleanup_trips"
    /\ raw.fares.stop_codes.kind = "ok"

\* The fare observed from stop a to stop b is in the fare cache
FareObserved(a, b) ==
    LET stop_codes == raw.fares.stop_codes.codes
        a_code == Get(stop_codes, a, "")
        b_code == Get(stop_codes, b, "")
    IN  /\ a_code # ""
        /\ b_code # ""
        /\ FareKey(a_code, b_code) \in DOMAIN fare_data_cache(raw.fares.files)

\* The fare value observed from stop a to stop b
ObservedFare(a, b) ==
    fare_data_cache(raw.fares.files)[
        FareKey(raw.fares.stop_codes.codes[a], raw.fares.stop_codes.codes[b])]

\* The routes of route_stops_map
FareRoutes ==
    LET keys == RouteStopsKeys(<<>>, trips, stop_times, 1)
    IN  {keys[k] : k \in DOMAIN keys}

\* The stops of a route in route_stops_map
StopsOn(route_id) ==
    LET route_stops == RouteStops(route_id, trips, stop_times)
    IN  {route_stops[i] : i \in DOMAIN route_stops}

\* A FareRule of the route between the two stops, in either orientation,
\* whose fare_id is derived from a fare observed between them
HasFareRule(route_id, a, b) ==
    \E r \in DOMAIN fare_rules :
        /\ fare_rules[r].route_id = route_id
        /\ \/ /\ fare_rules[r].origin_id = a
              /\ fare_rules[r].destination_id = b
           \/ /\ fare_rules[r].origin_id = b
              /\ fare_rules[r].destination_id = a
        /\ \/ /\ FareObserved(a, b)
              /\ fare_rules[r].fare_id = FareId(ObservedFare(a, b))
           \/ /\ FareObserved(b, a)
              /\ fare_rules[r].fare_id = FareId(ObservedFare(b, a))

\* C11: when add_fares returns, every route and every pair of stops on it
\* for which a fare was observed, in either orientation, has a FareRule
\* for that pair whose fare_id is derived from the fare looked up.
\* The code looks a pair up only as <code of the smaller stop id>_<code
\* of the larger stop id>: a fare observed the other way round has no rule.
C11_ObservedFareHasRule ==
    FaresProcessed =>
        \A route_id \in FareRoutes :
            \A a \in StopsOn(route_id), b \in StopsOn(route_id) :
                (a # b /\ (FareObserved(a, b) \/ FareObserved(b, a)))
                    => HasFareRule(route_id, a, b)

\* C12: in every state, the fare_id of each FareRule is the key of a
\* FareAttribute of the fare-attribute collection.
C12_FareRuleReferencesAttribute ==
    \A r \in DOMAIN fare_rules :
        fare_rules[r].fare_id \in DOMAIN fare_attributes

\* A rule whose fare 10.004 was formatted to the id of the attribute 10.00
C12_Witness ==
    /\ FaresProcessed
    /\ \E r \in DOMAIN fare_rules :
          /\ FareObserved(fare_rules[r].origin_id, fare_rules[r].destination_id)
          /\ ObservedFare(fare_rules[r].origin_id, fare_rules[r].destination_id)
                = Rupees(10) + 4
          /\ fare_rules[r].fare_id = FareId(Rupees(10))
          /\ fare_rules[r].fare_id \in DOMAIN fare_attributes

\* No pair of stops of the route has an observed fare, in any orientation
NoFareObserved(route_id) ==
    \A a \in StopsOn(route_id), b \in StopsOn(route_id) : ~FareObserved(a, b)

\* The FareRule entries of a route
RulesOf(route_id) ==
    {r \in DOMAIN fare_rules : fare_rules[r].route_id = route_id}

\* The routes of gtfs.routes
RegisteredRoutes == {routes[i].route_id : i \in DOMAIN routes}

\* C13 as stated: every route none of whose stop pairs has an observed
\* fare has no FareRule, is counted in routes_without_fares and is not in
\* failed_fares. A route without any StopTime row is never counted.
C13_AsStated ==
    FaresProcessed =>
        LET unobserved == {route_id \in RegisteredRoutes : NoFareObserved(route_id)}
        IN  /\ \A route_id \in unobserved : RulesOf(route_id) = {}
            /\ routes_without_fares >= Cardinality(unobserved)
            /\ failed_fares \cap unobserved = {}

\* C13: when add_fares returns after loading stop_codes.json, every route
\* that has a StopTime row and no stop pair with an observed fare has no
\* FareRule and is not in failed_fares (which holds fare file names);
\* routes_without_fares counts exactly the routes with a StopTime row and
\* no FareRule, routes_with_fares the others, so the loop went on over
\* every route. Without stop_codes.json nothing is counted or emitted.
C13_RouteWithoutFares ==
    pc = "cleanup_trips" =>
        IF raw.fares.stop_codes.kind = "ok"
        THEN /\ \A route_id \in FareRoutes :
                   NoFareObserved(route_id) => RulesOf(route_id) = {}
             /\ routes_without_fares =
                   Cardinality({route_id \in FareRoutes : RulesOf(route_id) = {}})
             /\ routes_with_fares =
                   Cardinality({route_id \in FareRoutes : RulesOf(route_id) # {}})
             /\ failed_fares \subseteq DOMAIN raw.fares.files
             /\ failed_fares \cap RegisteredRoutes = {}
        ELSE /\ routes_without_fares = 0
             /\ routes_with_fares = 0
             /\ failed_fares = {}
             /\ fare_rules = <<>>

\* Route R2, first in route_stops_map, has no observed fare and is
\* counted; route R1 after it got its rules; a fare file failed
C13_Witness ==
    /\ FaresProcessed
    /\ RouteStopsKeys(<<>>, trips, stop_times, 1) = <<"R2", "R1">>
    /\ NoFareObserved("R2")
    /\ RulesOf("R2") = {}
    /\ RulesOf("R1") # {}
    /\ routes_without_fares = 1
    /\ routes_with_fares = 1
    /\ failed_fares # {}

----------------------------------------------------------------------------
(* cleanup_trips *)

\* The trip ids of the Trip and StopTime collections
TripIds ==
    {trips[i].trip_id : i \in DOMAIN trips}
        \cup {stop_times[i].trip_id : i \in DOMAIN stop_times}

\* C14: cleanup_trips removes exactly the trip ids whose StopTime count
\* is <= 1 from the Trip and the StopTime collection, keeps every other
\* row with its fields and in its relative order, and leaves stops,
\* routes, shapes, fares and translations alone.
\* A trip without any StopTime row has count 0 and is kept.
C14_PureFilter ==
    [][CleanupTrips =>
        LET removed == {id \in TripIds : StopTimeCount(id) <= 1}
            Kept(row) == row.trip_id \notin removed
        IN  /\ trips' = SelectSeq(trips, Kept)
            /\ stop_times' = SelectSeq(stop_times, Kept)
            /\ UNCHANGED <<stops, routes, shapes, translations,
                           fare_attributes, fare_rules>>]_vars

\* C15: cleanup_trips run a second time immediately after a first run
\* leaves the Trip and the StopTime collection as the first run left them.
C15_CleanupIdempotent ==
    [][CleanupTrips =>
        LET second == cleanup_trips(trips', stop_times')
        IN  /\ second.trips = trips'
            /\ second.stop_times = stop_times']_vars

\* The first run has just removed a trip and kept another
C15_Witness ==
    /\ pc = "add_translations"
    /\ trips # <<>>
    /\ Len(trips) < trip_counter
    /\ \E i \in DOMAIN trips : StopTimeCount(trips[i].trip_id) >= 2

----------------------------------------------------------------------------
(* Translations *)

\* C16: in every state, from add_translations to the written feed, the
\* record_id of each Translation is the id of a Stop of the stop collection
\* and no two Translations share (table, field, record id, language).
C16_TranslationsReferToStops ==
    /\ \A i \in DOMAIN translations :
          translations[i].record_id \in DOMAIN stops
    /\ \A i, j \in DOMAIN translations :
          (/\ translations[i].table_name = translations[j].table_name
           /\ translations[i].field_name = translations[j].field_name
           /\ translations[i].record_id = translations[j].record_id
           /\ translations[i].language = translations[j].language) => i = j

\* The feed is written with the one translation of a stop that the
\* translation file names twice, and without the one of an unknown stop
C16_Witness ==
    /\ pc = "written"
    /\ \E i \in DOMAIN translations : translations[i].record_id = "S1"
    /\ \E name \in DOMAIN raw.translations :
          LET file == raw.translations[name]
          IN  /\ file.kind = "ok"
              /\ file.kn
              /\ Cardinality({k \in DOMAIN file.data : file.data[k].stopid = "S1"}) = 2
              /\ \E k \in DOMAIN file.data :
                    /\ file.data[k].stopid \notin DOMAIN stops
                    /\ file.data[k].stopid # ""
                    /\ file.data[k].geofencename # ""

----------------------------------------------------------------------------
(* Stops and routes *)

\* The stop records of the documents of ../raw/stops/
StopRecords ==
    UNION {{(raw.stops[name].up \o raw.stops[name].down)[k] :
                k \in DOMAIN (raw.stops[name].up \o raw.stops[name].down)} :
           name \in {n \in DOMAIN raw.stops : raw.stops[n].kind = "ok"}}

\* The place in routes.json of the entry first sighted for a route id
FirstSighted(route_id) ==
    CHOOSE k \in DOMAIN raw.routes.data :
        /\ route_id_name(raw.routes.data[k].routeno) = route_id
        /\ \A j \in 1..(k - 1) :
              route_id_name(raw.routes.data[j].routeno) # route_id

\* C17: once add_stops has run, ingesting any stop record whose id is
\* registered leaves the stop collection as it is; once add_routes has
\* run, ingesting any catalog entry whose id is registered leaves the
\* route collection as it is, each route with the attributes of the entry
\* first sighted for its id.
C17_ReaddingIsNoOp ==
    /\ pc # "add_stops" =>
          \A record \in StopRecords :
              record.stationid \in DOMAIN stops =>
                  AddStopList(stops, <<record>>, 1) = stops
    /\ pc \notin {"add_stops", "add_routes", "aborted"} =>
          /\ \A k \in DOMAIN raw.routes.data :
                RouteIndex(routes, route_id_name(raw.routes.data[k].routeno)) # 0
                    => AddRouteList(routes, <<raw.routes.data[k]>>, 1) = routes
          /\ \A i \in DOMAIN routes :
                routes[i].route_long_name =
                    <<raw.routes.data[FirstSighted(routes[i].route_id)].fromstation,
                      raw.routes.data[FirstSighted(routes[i].route_id)].tostation>>

\* Stop S3 was sighted twice with two positions and route R1 twice with
\* two pairs of terminals: one stop S3 and one route R1 are registered
C17_Witness ==
    /\ pc = "add_shapes"
    /\ \E a \in StopRecords, b \in StopRecords :
          /\ a.stationid = "S3"
          /\ b.stationid = "S3"
          /\ a.coord # b.coord
          /\ "S3" \in DOMAIN stops
          /\ stops["S3"].stop_coord \in {a.coord, b.coord}
    /\ \E j, k \in DOMAIN raw.routes.data :
          /\ j < k
          /\ route_id_name(raw.routes.data[j].routeno) = "R1"
          /\ route_id_name(raw.routes.data[k].routeno) = "R1"
          /\ raw.routes.data[j].fromstation # raw.routes.data[k].fromstation
    /\ Cardinality({i \in DOMAIN routes : routes[i].route_id = "R1"}) = 1

----------------------------------------------------------------------------
(* add_trips *)

\* The route-directions recorded in failedTrips are those whose documents
\* failed, never one whose timetable entries were iterated
FailedAreNotIterated ==
    \A i \in DOMAIN failedTrips :
        RouteDirectionOutcome(failedTrips[i], shapes,
                              FileOf(raw.stops, failedTrips[i]),
                              FileOf(raw.timetables, failedTrips[i])) = "failedTrips"

\* C18: the iteration of a timetable entry whose starttime or endtime is
\* missing or unparseable adds no Trip and no StopTime row, goes on to the
\* next entry of the route-direction and does not record the
\* route-direction in failedTrips, which is appended to addedTrips at the
\* end of its entries.
C18_BadTimeEntrySkipped ==
    /\ [][(/\ add_trips_trip
           /\ \/ MissingTimeData(trip_details[trip_index])
              \/ TimeParseRaises(trip_details[trip_index]))
          => /\ trips' = trips
             /\ stop_times' = stop_times
             /\ failedTrips' = failedTrips
             /\ pc' = "trip_details"
             /\ rd_index' = rd_index
             /\ trip_index' = trip_index + 1]_vars
    /\ [][add_trips_added =>
            /\ failedTrips' = failedTrips
            /\ addedTrips' = Append(addedTrips, filename)]_vars
    /\ []FailedAreNotIterated

\* An entry without starttime was skipped, the entry after it made a trip,
\* and the route-direction went to addedTrips
C18_Witness ==
    /\ pc = "route_direction"
    /\ rd_index = 2
    /\ addedTrips = <<"R1 UP">>
    /\ failedTrips = <<>>
    /\ LET entries == FileOf(raw.timetables, "R1 UP").data[1].tripdetails.items
      IN  /\ Len(entries) = 2
          /\ MissingTimeData(entries[1])
          /\ TripIsAdded(entries[2])
    /\ Len(trips) = 1
    /\ trips[1].trip_id = 2
    /\ StopTimeCount(2) >= 2

\* The route-direction has no stop list: no file, or a file of size 0
NoStopList(name) == FileOf(raw.stops, name).kind \in {"missing", "empty"}

\* The route-direction has no shape
NoShape(name) == name \notin DOMAIN shapes

\* No Trip belongs to a route-direction without stop list or shape
TripsHaveStopListAndShape ==
    \A i \in DOMAIN trips :
        ~NoStopList(trips[i].shape_id) /\ ~NoShape(trips[i].shape_id)

\* C19: a route-direction without stop list is recorded in noStops, one
\* with a stop list and without shape in noShapes; in both cases no Trip
\* and no StopTime row is created, the route-direction is not recorded as
\* failed and the loop goes on to the next route-direction.
C19_MissingDependencySkipped ==
    /\ [][(/\ add_trips_route_direction
           /\ NoStopList(filename) \/ NoShape(filename))
          => /\ IF NoStopList(filename)
                THEN /\ noStops' = Append(noStops, filename)
                     /\ noShapes' = noShapes
                ELSE /\ noShapes' = Append(noShapes, filename)
                     /\ noStops' = noStops
             /\ trips' = trips
             /\ stop_times' = stop_times
             /\ failedTrips' = failedTrips
             /\ pc' = "route_direction"
             /\ rd_index' = rd_index + 1]_vars
    /\ []TripsHaveStopListAndShape

\* R2 DOWN had no stop list and R1 UP no shape, both are recorded, and
\* the route-direction R1 DOWN after them made its trip with its rows
C19_Witness ==
    /\ pc = "route_direction"
    /\ rd_index > Len(RouteDirections(routes))
    /\ noStops = <<"R2 DOWN">>
    /\ noShapes = <<"R1 UP">>
    /\ failedTrips = <<>>
    /\ \E i \in DOMAIN trips :
          /\ trips[i].shape_id = "R1 DOWN"
          /\ StopTimeCount(trips[i].trip_id) >= 2

----------------------------------------------------------------------------
(* The run *)

\* routes.json is absent, or present with an empty route list
NoRoutesAvailable ==
    \/ raw.routes.kind # "ok"
    \/ raw.routes.data = <<>>

\* C20: when no routes are available at all, the run does not get past
\* add_routes and no feed is written.
\* With {"data": []} add_routes registers nothing and returns; the later
\* stages run and write_gtfs writes the feed.
C20_NoRoutesAborts ==
    NoRoutesAvailable =>
        /\ pc \in {"add_stops", "add_routes", "aborted"}
        /\ feed = <<>>

\* The place of a position of the run in the order of the stages: stop
\* ingestion, route ingestion, shape ingestion, trip synthesis (with its
\* own cleanup_trips), translations, fare inference, cleaning, packaging
StageOf(position) ==
    CASE position = "add_stops" -> 1
      [] position = "add_routes" -> 2
      [] position = "add_shapes" -> 3
      [] position \in {"add_trips", "route_direction", "trip_details",
                       "add_trips_cleanup"} -> 4
      [] position = "add_translations" -> 5
      [] position = "add_fares" -> 6
      [] position = "cleanup_trips" -> 7
      [] position = "write_gtfs" -> 8
      [] position = "written" -> 9
      [] position = "aborted" -> 10

\* A step stays in its stage or ends it and begins the next one
NextStageOnly ==
    \/ StageOf(pc') = StageOf(pc)
    \/ StageOf(pc') = StageOf(pc) + 1
    \/ pc' = "aborted"

\* Each collection is written by its own stage only; a Trip or StopTime
\* row is added by trip synthesis only and removed by cleanup_trips only
WrittenInOwnStage ==
    /\ stops' # stops => StageOf(pc) = 1
    /\ routes' # routes => StageOf(pc) = 2
    /\ shapes' # shapes => StageOf(pc) = 3
    /\ (trips' # trips \/ stop_times' # stop_times) =>
          \/ pc = "trip_details"
          \/ /\ pc \in {"add_trips_cleanup", "cleanup_trips"}
             /\ Len(trips') <= Len(trips)
             /\ Len(stop_times') <= Len(stop_times)
    /\ translations' # translations => StageOf(pc) = 5
    /\ (fare_attributes' # fare_attributes \/ fare_rules' # fare_rules) =>
          StageOf(pc) = 6
    /\ feed' # feed => /\ StageOf(pc) = 8
                       /\ trips' = trips
                       /\ stop_times' = stop_times
                       /\ feed' = WrittenFiles

\* C21: the stages run in the order stop ingestion, route ingestion, shape
\* ingestion, trip synthesis, fare inference, cleaning, packaging, each
\* to its end before the next begins; the last cleanup_trips runs after
\* the last Trip or StopTime row is added and before write_gtfs reads the
\* registry.
C21_StagesInOrder ==
    [][NextStageOnly /\ WrittenInOwnStage]_vars

\* The feed is written with the trips the two cleanings left, after a
\* trip was removed and fares were added
C21_Witness ==
    /\ pc = "written"
    /\ trips # <<>>
    /\ Len(trips) < trip_counter
    /\ fare_rules # <<>>
    /\ "trips.txt" \in DOMAIN feed
    /\ feed["trips.txt"] = trips

\* The trip ids of gtfs.trips increase along the list and none is above
\* trip_counter
TripIdsIncrease ==
    /\ \A i, j \in DOMAIN trips : i < j => trips[i].trip_id < trips[j].trip_id
    /\ \A i \in DOMAIN trips : trips[i].trip_id <= trip_counter

\* C24: every Trip of the registry has a distinct trip id, the ids
\* increase strictly in creation order across the route-directions, and
\* trip_counter never goes back: a Trip that is added gets an id above
\* every id given before, whether its entry was skipped or its trip
\* removed by cleanup_trips.
C24_TripIdsFromCounter ==
    /\ []TripIdsIncrease
    /\ [][/\ trip_counter' >= trip_counter
          /\ Len(trips') > Len(trips) =>
                /\ trips' = Append(trips, trips'[Len(trips')])
                /\ trips'[Len(trips')].trip_id = trip_counter'
                /\ trip_counter' > trip_counter]_vars

\* The feed is written with a trip of R1 UP and a trip of R1 DOWN whose
\* ids are not consecutive: a number in between went to a skipped entry
\* or to a trip that cleanup_trips removed
C24_Witness ==
    /\ pc = "written"
    /\ \E i \in DOMAIN trips :
          /\ i + 1 \in DOMAIN trips
          /\ trips[i].shape_id = "R1 UP"
          /\ trips[i + 1].shape_id = "R1 DOWN"
          /\ trips[i + 1].trip_id > trips[i].trip_id + 1

\* How many times a route-direction is in a list
Occurrences(list, name) == Cardinality({i \in DOMAIN list : list[i] = name})

\* How many times a route-direction is in the five lists of add_trips
Outcomes(name) ==
    Occurrences(noStops, name) + Occurrences(noShapes, name)
        + Occurrences(noTimetables, name) + Occurrences(failedTrips, name)
        + Occurrences(addedTrips, name)

\* C26: every route-direction the loop of add_trips is done with is in
\* exactly one of noStops, noShapes, noTimetables, failedTrips and
\* addedTrips, once, the others in none; every Trip belongs to a
\* route-direction of addedTrips, or to the one whose entries are being
\* processed, which goes to addedTrips.
C26_OneOutcomePerRouteDirection ==
    /\ [](\A k \in 1..(2 * Len(routes)) :
            Outcomes(ShapeId(RouteDirections(routes)[k].route_id,
                             RouteDirections(routes)[k].direction))
                = IF k < rd_index THEN 1 ELSE 0)
    /\ [](\A i \in DOMAIN trips :
            \/ Occurrences(addedTrips, trips[i].shape_id) = 1
            \/ pc = "trip_details" /\ trips[i].shape_id = filename)
    /\ [][add_trips_added => addedTrips' = Append(addedTrips, filename)]_vars

\* add_trips is done with four route-directions: two added, one without
\* stop list, one without shape
C26_Witness ==
    /\ pc = "add_trips_cleanup"
    /\ addedTrips = <<"R2 UP", "R1 DOWN">>
    /\ noStops = <<"R2 DOWN">>
    /\ noShapes = <<"R1 UP">>
    /\ \E i \in DOMAIN trips : trips[i].shape_id = "R1 DOWN"
    /\ \E i \in DOMAIN trips : trips[i].shape_id = "R2 UP"

\* C27 as stated: after the final cleaning pass every StopTime's stop_id is
\* the id of a Stop of the stop collection
C27_NoOrphanedStopReferences ==
    pc \in {"write_gtfs", "written"}
        => \A i \in DOMAIN stop_times : stop_times[i].stop_id \in DOMAIN stops

\* A StopTime row of a trip of the route is at the stop
ServedByRoute(route_id, stop_id) ==
    \E i \in DOMAIN stop_times :
        /\ stop_times[i].stop_id = stop_id
        /\ \E t \in DOMAIN trips :
              /\ trips[t].trip_id = stop_times[i].trip_id
              /\ trips[t].route_id = route_id

\* C28: once add_fares has returned, every FareRule has an origin_id
\* other than its destination_id, both are stops of StopTime rows of trips
\* of the rule's route_id that the cleanup at the end of add_trips left,
\* and no two FareRules have the same route_id, origin_id and
\* destination_id.
C28_FareRulesOverServedPairs ==
    pc \in {"cleanup_trips", "write_gtfs", "written"} =>
        /\ \A r \in DOMAIN fare_rules :
              /\ fare_rules[r].origin_id # fare_rules[r].destination_id
              /\ ServedByRoute(fare_rules[r].route_id, fare_rules[r].origin_id)
              /\ ServedByRoute(fare_rules[r].route_id, fare_rules[r].destination_id)
        /\ \A r1 \in DOMAIN fare_rules, r2 \in DOMAIN fare_rules :
              (/\ fare_rules[r1].route_id = fare_rules[r2].route_id
               /\ fare_rules[r1].origin_id = fare_rules[r2].origin_id
               /\ fare_rules[r1].destination_id = fare_rules[r2].destination_id)
                  => r1 = r2

\* add_fares has returned with several rules of a route while the trips
\* of another route have a StopTime row at a stop the rules' route does
\* not serve
C28_Witness ==
    /\ pc = "cleanup_trips"
    /\ Len(fare_rules) >= 2
    /\ \E i \in DOMAIN stop_times, r \in DOMAIN fare_rules :
          /\ ~ServedByRoute(fare_rules[r].route_id, stop_times[i].stop_id)
          /\ \E t \in DOMAIN trips : trips[t].trip_id = stop_times[i].trip_id

----------------------------------------------------------------------------
(* scrape.py: BMTCApiClient.make_request *)

\* Config.MAX_RETRIES
MAX_RETRIES == 3

\* asyncio.Semaphore(10)
SemaphoreValue == 10

\* The coroutines that run make_request at the same time
MaxRequests == 2

\* gtfs.py is not running
WriterNotRun ==
    /\ raw = NoRaw
    /\ InitRegistry
    /\ InitLoop
    /\ InitFares
    /\ trip_counter = 0
    /\ in_trip = NoTrip
    /\ in_stops = <<>>
    /\ fs_fares = <<>>
    /\ fs_route_stops = <<>>
    /\ fs_result = NotRun

writerVars == <<raw, registryVars, outputVars, fareVars, trip_counter,
                loopVars, listVars, tripInputVars, stageVars>>

\* What an HTTP attempt ends with: a body that is JSON, a body that is
\* not, an aiohttp.ClientError (raise_for_status included), a timeout
Responses == {"json", "not_json", "client_error", "timeout"}

\* The call make_request(endpoint, data) of a caller: retry_count = 0
NewRequest ==
    [at |-> "enter", retry_count |-> 0, attempts |-> 0, delays |-> 0,
     holds |-> FALSE, response |-> "none", result |-> "pending"]

\* Every response is taken for an exception of the except clause but the
\* JSON body
Raised_not_json(response) == response # "json"

\* except (aiohttp.ClientError, asyncio.TimeoutError)
Raised(response) == response \in {"client_error", "timeout"}

InitRequest ==
    /\ pc = "make_request"
    /\ WriterNotRun
    /\ requests = [t \in 1..MaxRequests |-> NewRequest]
    /\ semaphore = SemaphoreValue
    /\ stop_files = <<>>
    /\ processed_routes = {}
    /\ batch_start = 0
    /\ last_batch = NoBatch

\* The entry of make_request, up to "async with self.semaphore"
make_request_enter ==
    \E t \in DOMAIN requests :
        /\ requests[t].at = "enter"
        /\ requests' = [requests EXCEPT ![t] =
              IF requests[t].retry_count > MAX_RETRIES
              THEN [@ EXCEPT !.at = "returned", !.result = "None"]
              ELSE [@ EXCEPT !.at = "acquire"]]
        /\ UNCHANGED <<pc, semaphore, getFaresVars, writerVars>>

\* Semaphore.__aenter__
semaphore_acquire ==
    \E t \in DOMAIN requests :
        /\ requests[t].at = "acquire"
        /\ semaphore > 0
        /\ semaphore' = semaphore - 1
        /\ requests' = [requests EXCEPT ![t] =
              [@ EXCEPT !.at = "request", !.holds = TRUE]]
        /\ UNCHANGED <<pc, getFaresVars, writerVars>>

\* The end of an HTTP attempt: the body of the two "async with", left by
\* a return or by an exception, and the except clause up to its sleep
http_response ==
    \E t \in DOMAIN requests, response \in Responses :
        /\ requests[t].at = "request"
        /\ semaphore' = semaphore + 1
        /\ LET retry_count == requests[t].retry_count + 1
               attempted == [requests[t] EXCEPT !.attempts = @ + 1,
                                                !.holds = FALSE,
                                                !.response = response]
           IN  requests' = [requests EXCEPT ![t] =
                  IF Raised(response)
                  THEN IF retry_count <= MAX_RETRIES
                       THEN [attempted EXCEPT !.at = "sleep",
                                              !.retry_count = retry_count]
                       ELSE [attempted EXCEPT !.at = "returned",
                                              !.retry_count = retry_count,
                                              !.result = "None"]
                  ELSE IF response = "json"
                       THEN [attempted EXCEPT !.at = "returned",
                                              !.result = "json"]
                       ELSE [attempted EXCEPT !.at = "returned",
                                              !.result = "None"]]
        /\ UNCHANGED <<pc, getFaresVars, writerVars>>

\* asyncio.sleep(Config.RETRY_DELAY) is over: make_request is called again
retry_delay ==
    \E t \in DOMAIN requests :
        /\ requests[t].at = "sleep"
        /\ requests' = [requests EXCEPT ![t] =
              [@ EXCEPT !.at = "enter", !.delays = @ + 1]]
        /\ UNCHANGED <<pc, semaphore, getFaresVars, writerVars>>

NextRequest ==
    \/ make_request_enter
    \/ semaphore_acquire
    \/ http_response
    \/ retry_delay

\* The event loop runs a coroutine that can go on; an attempt ends by its
\* response or by REQUEST_TIMEOUT, a sleep after RETRY_DELAY
SpecRequest == InitRequest /\ [][NextRequest]_vars /\ WF_vars(NextRequest)

\* The coroutines holding the semaphore
Holders == {t \in DOMAIN requests : requests[t].holds}

\* What holds of a make_request call at any time
RequestBounded(t) ==
    /\ requests[t].attempts <= MAX_RETRIES + 1
    /\ requests[t].delays <= MAX_RETRIES
    /\ (requests[t].at = "returned" /\ Raised(requests[t].response))
          => /\ requests[t].attempts = MAX_RETRIES + 1
             /\ requests[t].result = "None"
    /\ requests[t].response = "not_json"
          => /\ requests[t].at = "returned"
             /\ requests[t].result = "None"
    /\ requests[t].at \in {"sleep", "enter", "acquire", "returned"}
          => ~requests[t].holds

\* C29: every make_request call returns; it makes at most MAX_RETRIES + 1
\* HTTP attempts, and when the last one fails with a client error or a
\* timeout it has made MAX_RETRIES + 1 of them and returns None; a body
\* that is not JSON returns None at once, without another attempt; a
\* coroutine that waits for the retry delay does not hold the semaphore,
\* whose value is the ones not held.
C29_MakeRequestTerminates ==
    /\ <>(\A t \in DOMAIN requests : requests[t].at = "returned")
    /\ [](\A t \in DOMAIN requests : RequestBounded(t))
    /\ [](semaphore = SemaphoreValue - Cardinality(Holders))

\* One call has returned None after four failed attempts and three
\* delays, another one after a first body that was not JSON, while no
\* one holds the semaphore
C29_Witness ==
    /\ pc = "make_request"
    /\ \E t \in DOMAIN requests, u \in DOMAIN requests :
          /\ requests[t].at = "returned"
          /\ requests[t].response = "timeout"
          /\ requests[t].attempts = MAX_RETRIES + 1
          /\ requests[t].delays = MAX_RETRIES
          /\ requests[t].result = "None"
          /\ requests[u].at = "returned"
          /\ requests[u].response = "not_json"
          /\ requests[u].attempts = 1
          /\ requests[u].result = "None"
    /\ semaphore = SemaphoreValue

----------------------------------------------------------------------------
(* scrape.py: BMTCScraper.get_fares *)

\* BATCH_SIZE of get_fares
BATCH_SIZE == 5

\* The stop-list files of ../raw/stops at most
MaxStopFiles == 6

\* The name of the k-th stop-list file
StopFile(k) == "R" \o ToString(k) \o ".json"

\* stop_file.replace('.json', '')
RouteNameOf(stop_file) ==
    CHOOSE route_name \in {"R" \o ToString(k) : k \in 1..MaxStopFiles} :
        route_name \o ".json" = stop_file

\* What asyncio.gather(..., return_exceptions=True) holds for a task: the
\* int it returned, or the exception it ended with
TaskResults == {"int", "exception"}

Min(a, b) == IF a <= b THEN a ELSE b

\* get_fares up to its loop: the files listed and the routes loaded from
\* processed_routes.json
InitGetFares ==
    /\ pc = "get_fares"
    /\ WriterNotRun
    /\ requests = <<>>
    /\ semaphore = SemaphoreValue
    /\ \E n \in 0..MaxStopFiles : stop_files = [k \in 1..n |-> StopFile(k)]
    /\ processed_routes \in
          SUBSET {RouteNameOf(stop_files[k]) : k \in DOMAIN stop_files}
    /\ batch_start = 0
    /\ last_batch = NoBatch

\* batch_tasks: the files of the batch whose route is not processed yet
BatchTasks(batch, processed) ==
    LET Pending(stop_file) == RouteNameOf(stop_file) \notin processed
    IN  SelectSeq(batch, Pending)

\* The loop over zip(batch, results)
Zipped(batch, results, processed) ==
    processed \cup
        {RouteNameOf(batch[k]) :
            k \in {z \in 1..Min(Len(batch), Len(results)) : results[z] = "int"}}

\* One pass of the loop over the batches
get_fares_batch ==
    /\ pc = "get_fares"
    /\ batch_start < Len(stop_files)
    /\ LET batch == SubSeq(stop_files, batch_start + 1,
                           Min(batch_start + BATCH_SIZE, Len(stop_files)))
           batch_tasks == BatchTasks(batch, processed_routes)
       IN  \E results \in [DOMAIN batch_tasks -> TaskResults] :
              /\ processed_routes' =
                    IF batch_tasks # <<>>
                    THEN Zipped(batch, results, processed_routes)
                    ELSE processed_routes
              /\ last_batch' = [processed |-> processed_routes,
                                batch |-> batch, tasks |-> batch_tasks,
                                results |-> results]
    /\ batch_start' = batch_start + BATCH_SIZE
    /\ UNCHANGED <<pc, stop_files, requestVars, writerVars>>

\* The loop over the batches is over
get_fares_finished ==
    /\ pc = "get_fares"
    /\ batch_start >= Len(stop_files)
    /\ pc' = "get_fares_done"
    /\ UNCHANGED <<getFaresVars, requestVars, writerVars>>

NextGetFares ==
    \/ get_fares_batch
    \/ get_fares_finished

SpecGetFares == InitGetFares /\ [][NextGetFares]_vars

\* The task of the stop file in the batch that completed last returned
\* an int
OwnTaskSucceeded(stop_file) ==
    \E j \in DOMAIN last_batch.tasks :
        /\ last_batch.tasks[j] = stop_file
        /\ last_batch.results[j] = "int"

\* C30 as stated: after a batch, a route of the batch is in
\* processed_routes if and only if it was in it before the batch or its
\* own task returned an int. zip(batch, results) pairs the results with
\* the files of the batch, the skipped ones included: behind a skipped
\* file every result goes to the file before the one it belongs to.
C30_OwnResultDecides ==
    \A k \in DOMAIN last_batch.batch :
        LET route_name == RouteNameOf(last_batch.batch[k])
        IN  route_name \in processed_routes
                <=> \/ route_name \in last_batch.processed
                    \/ OwnTaskSucceeded(last_batch.batch[k])

====
